---- MODULE Spec2Model ----
(***************************************************************************)
(* State machine of the ImageForge component                               *)
(* (src/Chatbot/src/components/ImageForge.tsx): the React state of the     *)
(* component, the localStorage slot, and the asynchronous handlers         *)
(* (generate, edit, suggest, upload, history selection), each cut at its   *)
(* await points.  One action is one synchronous run of JavaScript: an      *)
(* event handler up to its first await, or the continuation of an await    *)
(* up to the next one, together with the render and the effects that       *)
(* follow it.                                                              *)
(***************************************************************************)
EXTENDS Integers, Sequences, FiniteSets, TLC

(***************************************************************************)
(* Program constants and model bounds.                                     *)
(***************************************************************************)
MAX_HISTORY_LENGTH == 5
MAX_UNDO_STEPS == 5

\* Images the remote model can return and the user can upload: 1..NumImages.
NumImages == 3
\* Handlers that may be in flight (suspended at an await) at the same time.
MaxTasks == 2
\* Images of the capacity runs (SpecSeq): 1..NumSeqImages.
NumSeqImages == 7
\* Operations (handler runs that reach an await) the user starts in a run.
MaxOps == 3
\* Operations the user starts in a sequential run (SpecSeq).
MaxSeqOps == 2

(***************************************************************************)
(* Values.                                                                 *)
(***************************************************************************)
\* imageUrl: string | null.  Data URIs are numbered; 0 stands for null.
NULL == 0
\* Thumbnails (JPEG data URIs produced by the canvas) are numbered from here.
ThumbBase == 10

Images == 1..NumImages
SeqImages == 1..NumSeqImages

\* error: string | null, a message as the tuple of its parts; <<>> is null.
NoError == <<>>
\* refinedPrompts / suggestedEdits: the remote result tagged with the input
\* it was computed for; <<>> is null.
NoResult == <<>>

\* Texts typed into the two input fields.
Prompts == {"", " ", "p1"}
EditPrompts == {"", " ", "e1"}
\* Descriptions a remote result can carry (used as prompts by the
\* suggestion buttons).
RefinedDescriptions == {"p1"}
EditDescriptions == {"e1", " "}
\* Messages a rejected remote call can carry.
ErrorMessages == {"429 Too Many Requests", "model overloaded"}

\* A trim that removes nothing.
TrimNothing(s) == s

\* String.prototype.trim on the texts above.
Trim(s) == IF s = " " THEN "" ELSE s

\* A test for the rate limit that never finds it.
NeverRateLimited(msg) == FALSE

\* String.prototype.includes('429') on the messages above.
Includes429(msg) == msg = "429 Too Many Requests"

RateLimitMessage == <<"You have exceeded your current quota for the AI model.">>

(***************************************************************************)
(* createThumbnailDataUri (the encoding, as a value): the canvas scales    *)
(* the picture down and re-encodes it as JPEG at quality 0.7, which is     *)
(* lossy: images 2 and 3 differ only in detail that the encoding loses,    *)
(* and so have the same thumbnail.                                         *)
(***************************************************************************)
createThumbnailDataUri(img) ==
  ThumbBase + (IF img = 3 THEN 2 ELSE img)

(***************************************************************************)
(* createThumbnailDataUri, the size of the canvas (lines 64-77).  Widths   *)
(* and heights are whole numbers of pixels.                                *)
(***************************************************************************)
maxSize == 400

\* The sizes looked at.
Sides == {1, 2, 145, 300, 399, 400, 401, 464, 539, 800, 1000, 1200}

NoSize == <<>>

\* "side *= maxSize / other" is computed in double precision: the quotient
\* maxSize / other is rounded, then the product.  For these pairs <<other,
\* side>> of Sides the product comes out just below the whole number
\* side * maxSize / other (124.99999999999999 and 399.99999999999994); for
\* every other pair it is within 1e-13 of the exact value, on the same
\* side of every whole number.
ProductBelowQuotient == {<<464, 145>>, <<539, 539>>}

\* The side after "side *= maxSize / other" and its assignment to
\* canvas.width or canvas.height, which drops the fraction.
ScaledSide(side, other) ==
  IF <<other, side>> \in ProductBelowQuotient
  THEN (side * maxSize) \div other - 1
  ELSE (side * maxSize) \div other

ThumbnailSize(width, height) ==
  IF width > height
  THEN IF width > maxSize
       THEN [width |-> maxSize, height |-> ScaledSide(height, width)]
       ELSE [width |-> width, height |-> height]
  ELSE IF height > maxSize
       THEN [width |-> ScaledSide(width, height), height |-> maxSize]
       ELSE [width |-> width, height |-> height]

(***************************************************************************)
(* Sequence helpers: Array.prototype.filter and slice(0, n).               *)
(***************************************************************************)
RECURSIVE FilterOut(_, _)
FilterOut(s, x) ==
  IF s = <<>> THEN <<>>
  ELSE IF Head(s) = x THEN FilterOut(Tail(s), x)
       ELSE <<Head(s)>> \o FilterOut(Tail(s), x)

Slice(s, n) == IF Len(s) <= n THEN s ELSE SubSeq(s, 1, n)

RemoveAt(s, i) == SubSeq(s, 1, i - 1) \o SubSeq(s, i + 1, Len(s))

\* The updater without its filter: what it would be if a thumbnail that is
\* already listed were listed again.
RecordThumbnailUnfiltered(prevHistory, thumbnailUrl) ==
  Slice(<<thumbnailUrl>> \o prevHistory, MAX_HISTORY_LENGTH)

\* The updater appending: what it would be if the list ran oldest first.
RecordThumbnailLast(prevHistory, thumbnailUrl) ==
  Slice(FilterOut(prevHistory, thumbnailUrl) \o <<thumbnailUrl>>,
        MAX_HISTORY_LENGTH)

\* The updater passed to setImageHistory (lines 147-151).
RecordThumbnail(prevHistory, thumbnailUrl) ==
  Slice(<<thumbnailUrl>> \o FilterOut(prevHistory, thumbnailUrl),
        MAX_HISTORY_LENGTH)

\* The push without its slice: what it would be if the stack were unbounded.
PushUndoUnbounded(prev, img) == <<img>> \o prev

\* The updater passed to setUndoStack before an edit (line 255).
PushUndo(prev, img) == Slice(<<img>> \o prev, MAX_UNDO_STEPS)

(***************************************************************************)
(* localStorage: the slot holds a text, modelled as its token sequence;    *)
(* the empty text stands for an absent slot (getItem's null and ''         *)
(* are both falsy at line 109).                                            *)
(***************************************************************************)
LBracket == 0 - 1
RBracket == 0 - 2

LBrace == 0 - 3
RBrace == 0 - 4

\* JSON.stringify of a list of strings.
Stringify(list) == <<LBracket>> \o list \o <<RBracket>>

\* JSON.parse (line 110): the texts that are a list of strings, the one
\* that is an object, and the value of a list text.  Any other text makes
\* JSON.parse throw.
IsArrayText(text) ==
  /\ Len(text) >= 2
  /\ text[1] = LBracket
  /\ text[Len(text)] = RBracket
  /\ \A n \in 2..(Len(text) - 1) : text[n] > 0

IsObjectText(text) == text = <<LBrace, RBrace>>

Parses(text) == IsArrayText(text) \/ IsObjectText(text)

ParsedList(text) == SubSeq(text, 2, Len(text) - 1)

VARIABLES
  prompt, editPrompt, imageUrl, undoStack, isUploadedImage, isLoading,
  isRefining, error, imageHistory, activeLoader, refinedPrompts,
  suggestedEdits, isHistorySheetOpen,
  storage,       \* localStorage[LOCAL_STORAGE_HISTORY_KEY]
  toasts,        \* titles of the toasts raised by the last step, in order
  tasks,         \* handlers suspended at an await, in the order they started
  budget,        \* operations the user may still start (bounds the run)
  nextImage,     \* environment: the images 1..nextImage-1 exist so far
  scenario,      \* history variable: progress through Generate, Edit, Undo
  mounted,       \* the start-up is over: the mount effects (lines 106-141)
                 \* have run and the list they loaded, if any, is rendered
  queued,        \* the list passed to setImageHistory by the load effect and
                 \* not yet rendered, as a sequence of zero or one list
  picture,       \* width and height of the image a thumbnail is made of
  canvas         \* width and height of the canvas it is drawn on

vars == <<prompt, editPrompt, imageUrl, undoStack, isUploadedImage, isLoading,
          isRefining, error, imageHistory, activeLoader, refinedPrompts,
          suggestedEdits, isHistorySheetOpen, storage, toasts, tasks,
          budget, nextImage, scenario, mounted, picture, canvas, queued>>

\* A suspended handler: which handler, the await it waits at, the image it
\* holds (the base image of an edit until the remote call returns, then the
\* result), its text argument, and (history field) the undo stack as it
\* was when an edit started: see Task below.

\* The environment after it has produced img (a remote result or a chosen
\* file): an image is either one that exists already or the next new one.
Produced(img) == IF img >= nextImage THEN img + 1 ELSE nextImage

\* The images the environment can produce next, out of 1..n.
Producible(n) == 1..(IF nextImage <= n THEN nextImage ELSE n)

Task(kind, pc, img, arg, pre) ==
  [kind |-> kind, pc |-> pc, img |-> img, arg |-> arg, pre |-> pre,
   superseded |-> FALSE]

\* History field: a Generate is superseded once a later Generate starts.
Supersede(ts) ==
  [k \in DOMAIN ts |->
     IF ts[k].kind = "generate" THEN [ts[k] EXCEPT !.superseded = TRUE]
     ELSE ts[k]]


NoLoader == "null"

(***************************************************************************)
(* History variable: how far the run is through the scenario "from the     *)
(* empty state, one Generate that succeeds, one Edit that succeeds, one    *)
(* Undo", with nothing but typing in between.  An operation succeeds when  *)
(* its remote call resolves and its thumbnail is recorded; "off" once the  *)
(* run has left the scenario.  Read off the step, it constrains nothing.   *)
(***************************************************************************)
RaisedNext(title) == \E n \in DOMAIN toasts' : toasts'[n] = title

Started(kind) ==
  /\ tasks = <<>> /\ Len(tasks') = 1
  /\ tasks'[1].kind = kind

Quiet ==
  /\ tasks' = tasks /\ imageUrl' = imageUrl /\ undoStack' = undoStack
  /\ imageHistory' = imageHistory /\ error' = error
  /\ suggestedEdits' = suggestedEdits /\ refinedPrompts' = refinedPrompts
  /\ isHistorySheetOpen' = isHistorySheetOpen /\ toasts' = <<>>

\* The one suspended handler went on to its next await, or ended at its
\* last one.
Advanced ==
  /\ Len(tasks) = 1 /\ Len(tasks') = 1
  /\ tasks'[1].pc # tasks[1].pc
  /\ ~RaisedNext("History Update Failed")

Completed(lastAwait) ==
  /\ Len(tasks) = 1 /\ tasks' = <<>>
  /\ tasks[1].pc = lastAwait

ScenarioStep ==
  scenario' =
    CASE scenario = "start" /\ Quiet -> "start"
      [] scenario = "start" /\ Started("generate") -> "generating"
      [] scenario = "generating" /\ Advanced -> "generating"
      [] scenario = "generating" /\ Completed("refinePromptV2") -> "generated"
      [] scenario = "generated" /\ Quiet -> "generated"
      [] scenario = "generated" /\ Started("edit") -> "editing"
      [] scenario = "editing" /\ Advanced -> "editing"
      [] scenario = "editing" /\ Completed("suggestEdits") -> "edited"
      [] scenario = "edited" /\ Quiet -> "edited"
      [] scenario = "edited" /\ toasts' = <<"Undo Successful">> -> "undone"
      [] OTHER -> "off"

Init ==
  /\ prompt = ""
  /\ editPrompt = ""
  /\ imageUrl = NULL
  /\ undoStack = <<>>
  /\ isUploadedImage = FALSE
  /\ isLoading = FALSE
  /\ isRefining = FALSE
  /\ error = NoError
  /\ imageHistory = <<>>
  /\ activeLoader = NoLoader
  /\ refinedPrompts = NoResult
  /\ suggestedEdits = NoResult
  /\ isHistorySheetOpen = FALSE
  /\ storage = Stringify(<<>>)
  /\ toasts = <<>>
  /\ tasks = <<>>
  /\ budget = MaxOps
  /\ nextImage = 1
  /\ scenario = "start"
  /\ mounted = TRUE
  /\ picture = NoSize
  /\ canvas = NoSize
  /\ queued = <<>>

(***************************************************************************)
(* What the rendered page lets the user do (lines 430-701).                *)
(***************************************************************************)
\* The history sheet is a modal dialog: while it is open only the sheet
\* takes input.
PageInteractive == ~isHistorySheetOpen

\* The action panel under the image (line 548).
PanelVisible == PageInteractive /\ imageUrl # NULL /\ ~isLoading

\* The "Suggestions to Improve" block (line 557).
RefinedVisible == PanelVisible /\ refinedPrompts # NoResult /\ ~isRefining

\* The "Suggested Edits" block (line 578).
SuggestedVisible == PanelVisible /\ suggestedEdits # NoResult

(***************************************************************************)
(* handleApiError (lines 162-198).                                         *)
(***************************************************************************)
ApiErrorSurfaced(msg, context) ==
  Includes429(msg) \/ context # "refine"

ApiErrorMessage(msg, context) ==
  IF Includes429(msg) THEN RateLimitMessage
  ELSE CASE context = "generate" -> <<"Could not generate image.", msg>>
         [] context = "edit" -> <<"Could not edit image.", msg>>
         [] context = "suggest" -> <<"Could not suggest edits.", msg>>
         [] OTHER -> <<msg>>

ApiErrorTitle(msg, context) ==
  IF Includes429(msg) THEN "Rate Limit Exceeded"
  ELSE CASE context = "generate" -> "Generation Failed"
         [] context = "edit" -> "Editing Failed"
         [] context = "suggest" -> "Suggestion Failed"
         [] OTHER -> "Operation Failed"

handleApiError(msg, context) ==
  IF ApiErrorSurfaced(msg, context)
  THEN /\ error' = ApiErrorMessage(msg, context)
       /\ toasts' = <<ApiErrorTitle(msg, context)>>
  ELSE /\ toasts' = <<>>
       /\ UNCHANGED error

(***************************************************************************)
(* updateImageHistory (lines 144-160) from the point where the thumbnail   *)
(* promise settles, with the save effect (lines 126-141) that runs after   *)
(* the render when imageHistory has changed.  outcome: "ok", "saveFails"   *)
(* (setItem throws), "encodeFails" (createThumbnailDataUri rejects).       *)
(* after: the toast the awaiting handler raises right after, "" if none;   *)
(* the save effect runs after the handler's continuation.                  *)
(***************************************************************************)
Outcomes == {"ok", "saveFails", "encodeFails"}

\* A transactional record: the update is taken back when the write fails.
updateImageHistoryTransactional(img, outcome, after) ==
  /\ imageHistory' =
       IF outcome = "ok"
       THEN RecordThumbnail(imageHistory, createThumbnailDataUri(img))
       ELSE imageHistory
  /\ storage' = IF outcome = "ok" THEN Stringify(imageHistory') ELSE storage
  /\ toasts' =
       (IF outcome = "encodeFails" THEN <<"History Update Failed">> ELSE <<>>)
       \o (IF after # "" THEN <<after>> ELSE <<>>)
       \o (IF outcome = "saveFails" THEN <<"History Save Failed">> ELSE <<>>)

\* A persistence that adds each new thumbnail to the stored text instead
\* of writing the list anew.
updateImageHistoryAppending(img, outcome, after) ==
  /\ imageHistory' =
       IF outcome = "encodeFails" THEN imageHistory
       ELSE RecordThumbnail(imageHistory, createThumbnailDataUri(img))
  /\ storage' =
       IF outcome = "ok"
       THEN Stringify(<<createThumbnailDataUri(img)>> \o ParsedList(storage))
       ELSE storage
  /\ toasts' =
       (IF outcome = "encodeFails" THEN <<"History Update Failed">> ELSE <<>>)
       \o (IF after # "" THEN <<after>> ELSE <<>>)
       \o (IF outcome = "saveFails" THEN <<"History Save Failed">> ELSE <<>>)

\* A record computed from a list read before the latest record: the new
\* thumbnail takes the place of the newest entry.
updateImageHistoryStale(img, outcome, after) ==
  /\ imageHistory' =
       IF outcome = "encodeFails" THEN imageHistory
       ELSE RecordThumbnail(IF imageHistory = <<>> THEN <<>>
                            ELSE Tail(imageHistory),
                            createThumbnailDataUri(img))
  /\ storage' = IF outcome = "ok" THEN Stringify(imageHistory') ELSE storage
  /\ toasts' =
       (IF outcome = "encodeFails" THEN <<"History Update Failed">> ELSE <<>>)
       \o (IF after # "" THEN <<after>> ELSE <<>>)
       \o (IF outcome = "saveFails" THEN <<"History Save Failed">> ELSE <<>>)

updateImageHistory(img, outcome, after) ==
  /\ imageHistory' =
       IF outcome = "encodeFails" THEN imageHistory
       ELSE RecordThumbnail(imageHistory, createThumbnailDataUri(img))
  /\ storage' = IF outcome = "ok" THEN Stringify(imageHistory') ELSE storage
  /\ toasts' =
       (IF outcome = "encodeFails" THEN <<"History Update Failed">> ELSE <<>>)
       \o (IF after # "" THEN <<after>> ELSE <<>>)
       \o (IF outcome = "saveFails" THEN <<"History Save Failed">> ELSE <<>>)

(***************************************************************************)
(* handleGenerateImage (lines 200-237).                                    *)
(***************************************************************************)
\* Lines 201-216: validation, the state resets, the call of generateImage.
handleGenerateImage(generationPrompt) ==
  \/ /\ Trim(generationPrompt) = ""
     /\ error' = <<"Cannot generate image from an empty prompt.">>
     /\ toasts' = <<>>
     /\ UNCHANGED <<prompt, editPrompt, imageUrl, undoStack, isUploadedImage,
                    isLoading, isRefining, imageHistory, activeLoader,
                    refinedPrompts, suggestedEdits, isHistorySheetOpen,
                    storage, tasks, budget, nextImage>>
  \/ /\ Trim(generationPrompt) # ""
     /\ Len(tasks) < MaxTasks /\ budget > 0
     /\ isLoading' = TRUE
     /\ activeLoader' = "generate"
     /\ error' = NoError
     /\ isUploadedImage' = FALSE
     /\ imageUrl' = NULL
     /\ undoStack' = <<>>
     /\ suggestedEdits' = NoResult
     /\ refinedPrompts' = NoResult
     /\ tasks' = Append(Supersede(tasks),
                         Task("generate", "generateImage", NULL,
                              generationPrompt, <<>>))
     /\ budget' = budget - 1
     /\ toasts' = <<>>
     /\ UNCHANGED <<prompt, editPrompt, isRefining, imageHistory,
                    isHistorySheetOpen, storage, nextImage>>

\* Enter in the prompt field (lines 454-461).
EnterGenerate ==
  /\ PageInteractive
  /\ ~(isLoading \/ isRefining)
  /\ handleGenerateImage(prompt)
  /\ ScenarioStep
  /\ UNCHANGED <<mounted, picture, canvas, queued>>

\* The Generate button (lines 470-479).
ClickGenerate ==
  /\ PageInteractive
  /\ ~(isLoading \/ isRefining \/ Trim(prompt) = "")
  /\ handleGenerateImage(prompt)
  /\ ScenarioStep
  /\ UNCHANGED <<mounted, picture, canvas, queued>>

\* The Regenerate button of the refinement block (lines 561-568).
ClickRegenerate ==
  /\ RefinedVisible
  /\ ~(isRefining \/ isLoading)
  /\ handleGenerateImage(prompt)
  /\ ScenarioStep
  /\ UNCHANGED <<mounted, picture, canvas, queued>>

\* A Generate button of a refined prompt (lines 571-573, 415).
ClickRefinedPrompt(description) ==
  /\ RefinedVisible
  /\ ~isLoading
  /\ handleGenerateImage(description)
  /\ ScenarioStep
  /\ UNCHANGED <<mounted, picture, canvas, queued>>

\* Lines 216-218: generateImage resolved; the thumbnail is being encoded.
GenerateImageResolves(i, img) ==
  /\ i \in DOMAIN tasks
  /\ tasks[i].kind = "generate" /\ tasks[i].pc = "generateImage"
  /\ imageUrl' = img
  /\ nextImage' = Produced(img)
  /\ tasks' = [tasks EXCEPT ![i].pc = "thumbnail", ![i].img = img]
  /\ toasts' = <<>>
  /\ UNCHANGED <<prompt, editPrompt, undoStack, isUploadedImage, isLoading,
                 isRefining, error, imageHistory, activeLoader,
                 refinedPrompts, suggestedEdits, isHistorySheetOpen, storage,
                 budget>>
  /\ ScenarioStep
  /\ UNCHANGED <<mounted, picture, canvas, queued>>

\* A catch that covers the call only, the handler going on to the
\* refinement after it.
GenerateImageRejectsThenRefines(i, msg) ==
  /\ i \in DOMAIN tasks
  /\ tasks[i].kind = "generate" /\ tasks[i].pc = "generateImage"
  /\ handleApiError(msg, "generate")
  /\ isRefining' = TRUE
  /\ tasks' = [tasks EXCEPT ![i].pc = "refinePromptV2"]
  /\ UNCHANGED <<prompt, editPrompt, imageUrl, undoStack, isUploadedImage,
                 isLoading, activeLoader, imageHistory, refinedPrompts,
                 suggestedEdits, isHistorySheetOpen, storage, budget,
                 nextImage>>
  /\ ScenarioStep
  /\ UNCHANGED <<mounted, picture, canvas, queued>>

\* Lines 230-236: generateImage rejected.
GenerateImageRejects(i, msg) ==
  /\ i \in DOMAIN tasks
  /\ tasks[i].kind = "generate" /\ tasks[i].pc = "generateImage"
  /\ handleApiError(msg, "generate")
  /\ isLoading' = FALSE
  /\ isRefining' = FALSE
  /\ activeLoader' = NoLoader
  /\ tasks' = RemoveAt(tasks, i)
  /\ UNCHANGED <<prompt, editPrompt, imageUrl, undoStack, isUploadedImage,
                 imageHistory, refinedPrompts, suggestedEdits,
                 isHistorySheetOpen, storage, budget, nextImage>>
  /\ ScenarioStep
  /\ UNCHANGED <<mounted, picture, canvas, queued>>

\* Lines 218-224: updateImageHistory returned; refinePromptV2 is called.
GenerateThumbnailSettles(i, outcome) ==
  /\ i \in DOMAIN tasks
  /\ tasks[i].kind = "generate" /\ tasks[i].pc = "thumbnail"
  /\ updateImageHistory(tasks[i].img, outcome, "")
  /\ editPrompt' = ""
  /\ isRefining' = TRUE
  /\ tasks' = [tasks EXCEPT ![i].pc = "refinePromptV2"]
  /\ UNCHANGED <<prompt, imageUrl, undoStack, isUploadedImage, isLoading,
                 error, activeLoader, refinedPrompts, suggestedEdits,
                 isHistorySheetOpen, budget, nextImage>>
  /\ ScenarioStep
  /\ UNCHANGED <<mounted, picture, canvas, queued>>

\* The remote result of refinePromptV2 for a prompt.
RefinementFor(p) == <<"refined", p>>

\* Lines 224-225, 232-236: refinePromptV2 resolved.
RefineResolves(i) ==
  /\ i \in DOMAIN tasks
  /\ tasks[i].kind = "generate" /\ tasks[i].pc = "refinePromptV2"
  /\ refinedPrompts' = RefinementFor(tasks[i].arg)
  /\ isLoading' = FALSE
  /\ isRefining' = FALSE
  /\ activeLoader' = NoLoader
  /\ tasks' = RemoveAt(tasks, i)
  /\ toasts' = <<>>
  /\ UNCHANGED <<prompt, editPrompt, imageUrl, undoStack, isUploadedImage,
                 error, imageHistory, suggestedEdits, isHistorySheetOpen,
                 storage, budget, nextImage>>
  /\ ScenarioStep
  /\ UNCHANGED <<mounted, picture, canvas, queued>>

\* Lines 226-228, 232-236: refinePromptV2 rejected.
RefineRejects(i, msg) ==
  /\ i \in DOMAIN tasks
  /\ tasks[i].kind = "generate" /\ tasks[i].pc = "refinePromptV2"
  /\ handleApiError(msg, "refine")
  /\ isLoading' = FALSE
  /\ isRefining' = FALSE
  /\ activeLoader' = NoLoader
  /\ tasks' = RemoveAt(tasks, i)
  /\ UNCHANGED <<prompt, editPrompt, imageUrl, undoStack, isUploadedImage,
                 imageHistory, refinedPrompts, suggestedEdits,
                 isHistorySheetOpen, storage, budget, nextImage>>
  /\ ScenarioStep
  /\ UNCHANGED <<mounted, picture, canvas, queued>>


(***************************************************************************)
(* handleSuggestEdits (lines 278-292).                                     *)
(***************************************************************************)
\* The remote result of suggestEdits for an image.
SuggestionsFor(img) == <<"suggested", img>>

\* A Suggest that keeps the previous suggestions until new ones arrive.
SuggestStartsKeeping ==
  /\ isLoading' = TRUE
  /\ activeLoader' = "suggest"
  /\ error' = NoError
  /\ suggestedEdits' = suggestedEdits

\* Lines 279-282: the state set before the call; shared by every caller.
SuggestStarts ==
  /\ isLoading' = TRUE
  /\ activeLoader' = "suggest"
  /\ error' = NoError
  /\ suggestedEdits' = NoResult

\* The Regenerate button of the suggested-edits block (lines 582-589).
ClickRegenerateSuggestions ==
  /\ SuggestedVisible
  /\ ~(imageUrl = NULL \/ isLoading)
  /\ Len(tasks) < MaxTasks /\ budget > 0
  /\ SuggestStarts
  /\ tasks' = Append(tasks, Task("suggest", "suggestEdits", imageUrl, "",
                                 <<>>))
  /\ budget' = budget - 1
  /\ toasts' = <<>>
  /\ UNCHANGED <<prompt, editPrompt, imageUrl, undoStack, isUploadedImage,
                 isRefining, imageHistory, refinedPrompts,
                 isHistorySheetOpen, storage, nextImage>>
  /\ ScenarioStep
  /\ UNCHANGED <<mounted, picture, canvas, queued>>

\* A handleSuggestEdits without its finally block.
SuggestResolvesBusy(i) ==
  /\ i \in DOMAIN tasks
  /\ tasks[i].pc = "suggestEdits"
  /\ suggestedEdits' = SuggestionsFor(tasks[i].img)
  /\ tasks' = RemoveAt(tasks, i)
  /\ toasts' = <<>>
  /\ UNCHANGED <<prompt, editPrompt, imageUrl, undoStack, isUploadedImage,
                 isLoading, isRefining, error, imageHistory, activeLoader,
                 refinedPrompts, isHistorySheetOpen, storage, budget,
                 nextImage>>
  /\ ScenarioStep
  /\ UNCHANGED <<mounted, picture, canvas, queued>>

\* Lines 284-285, 288-290 (and 272-274 when the caller is handleEditImage):
\* suggestEdits resolved.
SuggestResolves(i) ==
  /\ i \in DOMAIN tasks
  /\ tasks[i].pc = "suggestEdits"
  /\ suggestedEdits' = SuggestionsFor(tasks[i].img)
  /\ isLoading' = FALSE
  /\ activeLoader' = NoLoader
  /\ tasks' = RemoveAt(tasks, i)
  /\ toasts' = <<>>
  /\ UNCHANGED <<prompt, editPrompt, imageUrl, undoStack, isUploadedImage,
                 isRefining, error, imageHistory, refinedPrompts,
                 isHistorySheetOpen, storage, budget, nextImage>>
  /\ ScenarioStep
  /\ UNCHANGED <<mounted, picture, canvas, queued>>

\* A failure of suggestEdits that is thrown on to the caller: after an
\* Edit it reaches the catch of handleEditImage, which rolls the edit back.
SuggestRejectsRollingBack(i, msg) ==
  /\ i \in DOMAIN tasks
  /\ tasks[i].pc = "suggestEdits"
  /\ handleApiError(msg, "suggest")
  /\ isLoading' = FALSE
  /\ activeLoader' = NoLoader
  /\ tasks' = RemoveAt(tasks, i)
  /\ imageUrl' = IF tasks[i].kind = "edit" /\ undoStack # <<>>
                 THEN Head(undoStack) ELSE imageUrl
  /\ undoStack' = IF tasks[i].kind = "edit" /\ undoStack # <<>>
                  THEN Tail(undoStack) ELSE undoStack
  /\ UNCHANGED <<prompt, editPrompt, isUploadedImage, isRefining,
                 imageHistory, refinedPrompts, suggestedEdits,
                 isHistorySheetOpen, storage, budget, nextImage>>
  /\ ScenarioStep
  /\ UNCHANGED <<mounted, picture, canvas, queued>>

\* Lines 286-290: suggestEdits rejected.
SuggestRejects(i, msg) ==
  /\ i \in DOMAIN tasks
  /\ tasks[i].pc = "suggestEdits"
  /\ handleApiError(msg, "suggest")
  /\ isLoading' = FALSE
  /\ activeLoader' = NoLoader
  /\ tasks' = RemoveAt(tasks, i)
  /\ UNCHANGED <<prompt, editPrompt, imageUrl, undoStack, isUploadedImage,
                 isRefining, imageHistory, refinedPrompts, suggestedEdits,
                 isHistorySheetOpen, storage, budget, nextImage>>
  /\ ScenarioStep
  /\ UNCHANGED <<mounted, picture, canvas, queued>>

(***************************************************************************)
(* handleEditImage (lines 239-276).                                        *)
(***************************************************************************)
\* Lines 240-258: validation, the optimistic push, the call of editImage.
\* editActionPrompt is "" when the handler is called without argument.
handleEditImage(editActionPrompt) ==
  LET finalEditPrompt ==
        IF editActionPrompt # "" THEN editActionPrompt ELSE editPrompt
  IN
  \/ /\ Trim(finalEditPrompt) = ""
     /\ error' = <<"Please enter a prompt to edit the image.">>
     /\ toasts' = <<>>
     /\ UNCHANGED <<prompt, editPrompt, imageUrl, undoStack, isUploadedImage,
                    isLoading, isRefining, imageHistory, activeLoader,
                    refinedPrompts, suggestedEdits, isHistorySheetOpen,
                    storage, tasks, budget, nextImage>>
  \/ /\ Trim(finalEditPrompt) # ""
     /\ imageUrl = NULL
     /\ error' = <<"No image to edit. Please generate or upload an image first.">>
     /\ toasts' = <<>>
     /\ UNCHANGED <<prompt, editPrompt, imageUrl, undoStack, isUploadedImage,
                    isLoading, isRefining, imageHistory, activeLoader,
                    refinedPrompts, suggestedEdits, isHistorySheetOpen,
                    storage, tasks, budget, nextImage>>
  \/ /\ Trim(finalEditPrompt) # ""
     /\ imageUrl # NULL
     /\ Len(tasks) < MaxTasks /\ budget > 0
     /\ isLoading' = TRUE
     /\ activeLoader' = "edit"
     /\ error' = NoError
     /\ suggestedEdits' = NoResult
     /\ undoStack' = PushUndo(undoStack, imageUrl)
     /\ tasks' = Append(tasks, Task("edit", "editImage", imageUrl,
                                    finalEditPrompt, undoStack))
     /\ budget' = budget - 1
     /\ toasts' = <<>>
     /\ UNCHANGED <<prompt, editPrompt, imageUrl, isUploadedImage,
                    isRefining, imageHistory, refinedPrompts,
                    isHistorySheetOpen, storage, nextImage>>

\* The Apply AI Edit button (lines 612-621).
ClickApplyEdit ==
  /\ PanelVisible
  /\ ~(isLoading \/ Trim(editPrompt) = "")
  /\ handleEditImage("")
  /\ ScenarioStep
  /\ UNCHANGED <<mounted, picture, canvas, queued>>

\* An Apply Edit button of a suggested edit (lines 592-594, 415).
ClickSuggestedEdit(description) ==
  /\ SuggestedVisible
  /\ ~isLoading
  /\ handleEditImage(description)
  /\ ScenarioStep
  /\ UNCHANGED <<mounted, picture, canvas, queued>>

\* Lines 258-260: editImage resolved; the thumbnail is being encoded.
EditImageResolves(i, img) ==
  /\ i \in DOMAIN tasks
  /\ tasks[i].kind = "edit" /\ tasks[i].pc = "editImage"
  /\ imageUrl' = img
  /\ nextImage' = Produced(img)
  /\ tasks' = [tasks EXCEPT ![i].pc = "thumbnail", ![i].img = img]
  /\ toasts' = <<>>
  /\ UNCHANGED <<prompt, editPrompt, undoStack, isUploadedImage, isLoading,
                 isRefining, error, imageHistory, activeLoader,
                 refinedPrompts, suggestedEdits, isHistorySheetOpen, storage,
                 budget>>
  /\ ScenarioStep
  /\ UNCHANGED <<mounted, picture, canvas, queued>>

\* The updater passed to setUndoStack on failure (lines 267-271): the
\* stack it returns and the image it sets.
RollbackStack(prev) == IF prev = <<>> THEN <<>> ELSE Tail(prev)
RollbackImage(prev, current) == IF prev = <<>> THEN current ELSE Head(prev)

\* Lines 264-275: editImage rejected; the rollback.
EditImageRejects(i, msg) ==
  /\ i \in DOMAIN tasks
  /\ tasks[i].kind = "edit" /\ tasks[i].pc = "editImage"
  /\ handleApiError(msg, "edit")
  /\ imageUrl' = RollbackImage(undoStack, imageUrl)
  /\ undoStack' = RollbackStack(undoStack)
  /\ isLoading' = FALSE
  /\ activeLoader' = NoLoader
  /\ tasks' = RemoveAt(tasks, i)
  /\ UNCHANGED <<prompt, editPrompt, isUploadedImage, isRefining,
                 imageHistory, refinedPrompts, suggestedEdits,
                 isHistorySheetOpen, storage, budget, nextImage>>
  /\ ScenarioStep
  /\ UNCHANGED <<mounted, picture, canvas, queued>>

\* An encoding failure that updateImageHistory reports and throws again:
\* it reaches the catch of handleEditImage, and the edit is rolled back.
EditThumbnailSettlesFatal(i, outcome) ==
  /\ i \in DOMAIN tasks
  /\ tasks[i].kind = "edit" /\ tasks[i].pc = "thumbnail"
  /\ IF outcome = "encodeFails"
     THEN /\ error' = ApiErrorMessage("model overloaded", "edit")
          /\ toasts' = <<"History Update Failed",
                         ApiErrorTitle("model overloaded", "edit")>>
          /\ imageUrl' = RollbackImage(undoStack, imageUrl)
          /\ undoStack' = RollbackStack(undoStack)
          /\ isLoading' = FALSE
          /\ activeLoader' = NoLoader
          /\ tasks' = RemoveAt(tasks, i)
          /\ UNCHANGED <<prompt, editPrompt, isUploadedImage, isRefining,
                         imageHistory, refinedPrompts, suggestedEdits,
                         isHistorySheetOpen, storage, budget, nextImage>>
     ELSE /\ updateImageHistory(tasks[i].img, outcome, "")
          /\ isUploadedImage' = FALSE
          /\ editPrompt' = ""
          /\ SuggestStarts
          /\ tasks' = [tasks EXCEPT ![i].pc = "suggestEdits"]
          /\ UNCHANGED <<prompt, imageUrl, undoStack, isRefining,
                         refinedPrompts, isHistorySheetOpen, budget,
                         nextImage>>
  /\ ScenarioStep
  /\ UNCHANGED <<mounted, picture, canvas, queued>>

\* The suggestions asked for the image the edit started from.
EditThumbnailSettlesOnBase(i, outcome) ==
  /\ i \in DOMAIN tasks
  /\ tasks[i].kind = "edit" /\ tasks[i].pc = "thumbnail"
  /\ updateImageHistory(tasks[i].img, outcome, "")
  /\ isUploadedImage' = FALSE
  /\ editPrompt' = ""
  /\ SuggestStarts
  /\ tasks' = [tasks EXCEPT ![i].pc = "suggestEdits",
                            ![i].img = IF undoStack = <<>> THEN tasks[i].img
                                       ELSE Head(undoStack)]
  /\ UNCHANGED <<prompt, imageUrl, undoStack, isRefining, refinedPrompts,
                 isHistorySheetOpen, budget, nextImage>>
  /\ ScenarioStep
  /\ UNCHANGED <<mounted, picture, canvas, queued>>

\* Lines 260-263 and 279-284: updateImageHistory returned; the field is
\* cleared and handleSuggestEdits calls suggestEdits on the edited image.
EditThumbnailSettles(i, outcome) ==
  /\ i \in DOMAIN tasks
  /\ tasks[i].kind = "edit" /\ tasks[i].pc = "thumbnail"
  /\ updateImageHistory(tasks[i].img, outcome, "")
  /\ isUploadedImage' = FALSE
  /\ editPrompt' = ""
  /\ SuggestStarts
  /\ tasks' = [tasks EXCEPT ![i].pc = "suggestEdits"]
  /\ UNCHANGED <<prompt, imageUrl, undoStack, isRefining, refinedPrompts,
                 isHistorySheetOpen, budget, nextImage>>
  /\ ScenarioStep
  /\ UNCHANGED <<mounted, picture, canvas, queued>>

(***************************************************************************)
(* handleFileSelected (lines 299-343).                                     *)
(***************************************************************************)
\* Lines 300-310, 338: a file was chosen with the Upload button's dialog
\* (lines 480-489); readAsDataURL starts for a file of an image type.
FileSelected(img, isImageType) ==
  /\ PageInteractive
  /\ ~(isLoading \/ isRefining)
  /\ \/ /\ ~isImageType
        /\ error' = <<"Invalid file type. Please upload an image.">>
        /\ toasts' = <<"Upload Failed">>
        /\ UNCHANGED <<tasks, budget, nextImage>>
     \/ /\ isImageType
        /\ Len(tasks) < MaxTasks /\ budget > 0
        /\ tasks' = Append(tasks, Task("upload", "readAsDataURL", img, "",
                                       <<>>))
        /\ nextImage' = Produced(img)
        /\ budget' = budget - 1
        /\ toasts' = <<>>
        /\ UNCHANGED error
  /\ UNCHANGED <<prompt, editPrompt, imageUrl, undoStack, isUploadedImage,
                 isLoading, isRefining, imageHistory, activeLoader,
                 refinedPrompts, suggestedEdits, isHistorySheetOpen,
                 storage>>
  /\ ScenarioStep
  /\ UNCHANGED <<mounted, picture, canvas, queued>>

\* Lines 312-317: reader.onload; the thumbnail is being encoded.
FileReadResolves(i) ==
  /\ i \in DOMAIN tasks
  /\ tasks[i].kind = "upload" /\ tasks[i].pc = "readAsDataURL"
  /\ imageUrl' = tasks[i].img
  /\ undoStack' = <<>>
  /\ tasks' = [tasks EXCEPT ![i].pc = "thumbnail"]
  /\ toasts' = <<>>
  /\ UNCHANGED <<prompt, editPrompt, isUploadedImage, isLoading, isRefining,
                 error, imageHistory, activeLoader, refinedPrompts,
                 suggestedEdits, isHistorySheetOpen, storage, budget, nextImage>>
  /\ ScenarioStep
  /\ UNCHANGED <<mounted, picture, canvas, queued>>

\* A read failure that takes away the image on display.
FileReadRejectsClearing(i) ==
  /\ i \in DOMAIN tasks
  /\ tasks[i].kind = "upload" /\ tasks[i].pc = "readAsDataURL"
  /\ error' = <<"Failed to read the uploaded file.">>
  /\ toasts' = <<"Upload Failed">>
  /\ imageUrl' = NULL
  /\ undoStack' = <<>>
  /\ suggestedEdits' = NoResult
  /\ tasks' = RemoveAt(tasks, i)
  /\ UNCHANGED <<prompt, editPrompt, isUploadedImage, isLoading, isRefining,
                 imageHistory, activeLoader, refinedPrompts,
                 isHistorySheetOpen, storage, budget, nextImage>>
  /\ ScenarioStep
  /\ UNCHANGED <<mounted, picture, canvas, queued>>

\* Lines 330-337: reader.onerror.
FileReadRejects(i) ==
  /\ i \in DOMAIN tasks
  /\ tasks[i].kind = "upload" /\ tasks[i].pc = "readAsDataURL"
  /\ error' = <<"Failed to read the uploaded file.">>
  /\ toasts' = <<"Upload Failed">>
  /\ tasks' = RemoveAt(tasks, i)
  /\ UNCHANGED <<prompt, editPrompt, imageUrl, undoStack, isUploadedImage,
                 isLoading, isRefining, imageHistory, activeLoader,
                 refinedPrompts, suggestedEdits, isHistorySheetOpen,
                 storage, budget, nextImage>>
  /\ ScenarioStep
  /\ UNCHANGED <<mounted, picture, canvas, queued>>

\* Lines 317-328 and 279-284: updateImageHistory returned; the fields are
\* reset and handleSuggestEdits calls suggestEdits on the uploaded image.
UploadThumbnailSettles(i, outcome) ==
  /\ i \in DOMAIN tasks
  /\ tasks[i].kind = "upload" /\ tasks[i].pc = "thumbnail"
  /\ updateImageHistory(tasks[i].img, outcome, "Image Uploaded")
  /\ editPrompt' = ""
  /\ prompt' = ""
  /\ refinedPrompts' = NoResult
  /\ isUploadedImage' = TRUE
  /\ SuggestStarts
  /\ tasks' = [tasks EXCEPT ![i].pc = "suggestEdits"]
  /\ UNCHANGED <<imageUrl, undoStack, isRefining, isHistorySheetOpen,
                 budget, nextImage>>
  /\ ScenarioStep
  /\ UNCHANGED <<mounted, picture, canvas, queued>>


(***************************************************************************)
(* The history sheet (lines 642-647, 656-699) and                          *)
(* handleHistoryImageClick (lines 369-383).                                *)
(***************************************************************************)
OpenHistorySheet ==
  /\ PanelVisible
  /\ Len(imageHistory) > 0
  /\ isHistorySheetOpen' = TRUE
  /\ toasts' = <<>>
  /\ UNCHANGED <<prompt, editPrompt, imageUrl, undoStack, isUploadedImage,
                 isLoading, isRefining, error, imageHistory, activeLoader,
                 refinedPrompts, suggestedEdits, storage, tasks,
                 budget, nextImage>>
  /\ ScenarioStep
  /\ UNCHANGED <<mounted, picture, canvas, queued>>

CloseHistorySheet ==
  /\ isHistorySheetOpen
  /\ isHistorySheetOpen' = FALSE
  /\ toasts' = <<>>
  /\ UNCHANGED <<prompt, editPrompt, imageUrl, undoStack, isUploadedImage,
                 isLoading, isRefining, error, imageHistory, activeLoader,
                 refinedPrompts, suggestedEdits, storage, tasks,
                 budget, nextImage>>
  /\ ScenarioStep
  /\ UNCHANGED <<mounted, picture, canvas, queued>>

\* k: the position of the clicked thumbnail in the sheet.
\* A history selection that moves the selected entry to the front.
handleHistoryImageClickPromoting(k) ==
  /\ isHistorySheetOpen
  /\ k \in DOMAIN imageHistory
  /\ Len(tasks) < MaxTasks /\ budget > 0
  /\ imageUrl' = imageHistory[k]
  /\ undoStack' = <<>>
  /\ editPrompt' = ""
  /\ prompt' = ""
  /\ refinedPrompts' = NoResult
  /\ isUploadedImage' = TRUE
  /\ isHistorySheetOpen' = FALSE
  /\ toasts' = <<"Image Loaded">>
  /\ SuggestStarts
  /\ tasks' = Append(tasks, Task("history", "suggestEdits", imageHistory[k],
                                 "", <<>>))
  /\ budget' = budget - 1
  /\ imageHistory' = RecordThumbnail(imageHistory, imageHistory[k])
  /\ storage' = Stringify(imageHistory')
  /\ UNCHANGED <<isRefining, nextImage>>
  /\ ScenarioStep
  /\ UNCHANGED <<mounted, picture, canvas, queued>>

\* A history selection that keeps the undo stack of the image it replaces.
handleHistoryImageClickKeepingUndo(k) ==
  /\ isHistorySheetOpen
  /\ k \in DOMAIN imageHistory
  /\ Len(tasks) < MaxTasks /\ budget > 0
  /\ imageUrl' = imageHistory[k]
  /\ editPrompt' = ""
  /\ prompt' = ""
  /\ refinedPrompts' = NoResult
  /\ isUploadedImage' = TRUE
  /\ isHistorySheetOpen' = FALSE
  /\ toasts' = <<"Image Loaded">>
  /\ SuggestStarts
  /\ tasks' = Append(tasks, Task("history", "suggestEdits", imageHistory[k],
                                 "", <<>>))
  /\ budget' = budget - 1
  /\ UNCHANGED <<undoStack, isRefining, imageHistory, storage, nextImage>>
  /\ ScenarioStep
  /\ UNCHANGED <<mounted, picture, canvas, queued>>

handleHistoryImageClick(k) ==
  /\ isHistorySheetOpen
  /\ k \in DOMAIN imageHistory
  /\ Len(tasks) < MaxTasks /\ budget > 0
  /\ imageUrl' = imageHistory[k]
  /\ undoStack' = <<>>
  /\ editPrompt' = ""
  /\ prompt' = ""
  /\ refinedPrompts' = NoResult
  /\ isUploadedImage' = TRUE
  /\ isHistorySheetOpen' = FALSE
  /\ toasts' = <<"Image Loaded">>
  /\ SuggestStarts
  /\ tasks' = Append(tasks, Task("history", "suggestEdits", imageHistory[k],
                                 "", <<>>))
  /\ budget' = budget - 1
  /\ UNCHANGED <<isRefining, imageHistory, storage, nextImage>>
  /\ ScenarioStep
  /\ UNCHANGED <<mounted, picture, canvas, queued>>

(***************************************************************************)
(* handleUndo (lines 385-396) behind its button (lines 630-638).           *)
(***************************************************************************)
\* An Undo that drops the suggestions made for the image it leaves.
handleUndoClearing ==
  /\ PanelVisible
  /\ ~(isLoading \/ Len(undoStack) = 0)
  /\ imageUrl' = Head(undoStack)
  /\ undoStack' = Tail(undoStack)
  /\ suggestedEdits' = NoResult
  /\ refinedPrompts' = NoResult
  /\ toasts' = <<"Undo Successful">>
  /\ UNCHANGED <<prompt, editPrompt, isUploadedImage, isLoading, isRefining,
                 error, imageHistory, activeLoader, isHistorySheetOpen,
                 storage, tasks, budget, nextImage>>
  /\ ScenarioStep
  /\ UNCHANGED <<mounted, picture, canvas, queued>>

handleUndo ==
  /\ PanelVisible
  /\ ~(isLoading \/ Len(undoStack) = 0)
  /\ IF Len(undoStack) > 0
     THEN /\ imageUrl' = Head(undoStack)
          /\ undoStack' = Tail(undoStack)
          /\ toasts' = <<"Undo Successful">>
     ELSE /\ toasts' = <<>>
          /\ UNCHANGED <<imageUrl, undoStack>>
  /\ UNCHANGED <<prompt, editPrompt, isUploadedImage, isLoading, isRefining,
                 error, imageHistory, activeLoader, refinedPrompts,
                 suggestedEdits, isHistorySheetOpen, storage, tasks,
                 budget, nextImage>>
  /\ ScenarioStep
  /\ UNCHANGED <<mounted, picture, canvas, queued>>

(***************************************************************************)
(* handleReset (lines 358-367) behind its button (line 639).               *)
(***************************************************************************)
\* A Reset that clears the history as well.
handleResetWithHistory ==
  /\ PanelVisible
  /\ prompt' = ""
  /\ editPrompt' = ""
  /\ imageUrl' = NULL
  /\ undoStack' = <<>>
  /\ error' = NoError
  /\ refinedPrompts' = NoResult
  /\ isUploadedImage' = FALSE
  /\ suggestedEdits' = NoResult
  /\ imageHistory' = <<>>
  /\ storage' = Stringify(<<>>)
  /\ toasts' = <<>>
  /\ UNCHANGED <<isLoading, isRefining, activeLoader, isHistorySheetOpen,
                 tasks, budget, nextImage>>
  /\ ScenarioStep
  /\ UNCHANGED <<mounted, picture, canvas, queued>>

handleReset ==
  /\ PanelVisible
  /\ prompt' = ""
  /\ editPrompt' = ""
  /\ imageUrl' = NULL
  /\ undoStack' = <<>>
  /\ error' = NoError
  /\ refinedPrompts' = NoResult
  /\ isUploadedImage' = FALSE
  /\ suggestedEdits' = NoResult
  /\ toasts' = <<>>
  /\ UNCHANGED <<isLoading, isRefining, imageHistory, activeLoader,
                 isHistorySheetOpen, storage, tasks, budget, nextImage>>
  /\ ScenarioStep
  /\ UNCHANGED <<mounted, picture, canvas, queued>>

(***************************************************************************)
(* The two text fields (lines 448-455, 603-611).                           *)
(***************************************************************************)
SetPrompt(text) ==
  /\ PageInteractive
  /\ ~(isLoading \/ isRefining)
  /\ text # prompt
  /\ prompt' = text
  /\ toasts' = <<>>
  /\ UNCHANGED <<editPrompt, imageUrl, undoStack, isUploadedImage, isLoading,
                 isRefining, error, imageHistory, activeLoader,
                 refinedPrompts, suggestedEdits, isHistorySheetOpen, storage,
                 tasks, budget, nextImage>>
  /\ ScenarioStep
  /\ UNCHANGED <<mounted, picture, canvas, queued>>

SetEditPrompt(text) ==
  /\ PanelVisible
  /\ text # editPrompt
  /\ editPrompt' = text
  /\ toasts' = <<>>
  /\ UNCHANGED <<prompt, imageUrl, undoStack, isUploadedImage, isLoading,
                 isRefining, error, imageHistory, activeLoader,
                 refinedPrompts, suggestedEdits, isHistorySheetOpen, storage,
                 tasks, budget, nextImage>>
  /\ ScenarioStep
  /\ UNCHANGED <<mounted, picture, canvas, queued>>

(***************************************************************************)
(* The program with every interleaving of its handlers.                    *)
(***************************************************************************)
TaskIds == 1..MaxTasks

\* Inputs of the interleaved runs: two prompts, one edit instruction, and
\* a storage that accepts every write.
TypedPrompts == {"p1", "p2"}
TypedEditPrompts == {"e1"}
ThumbnailOutcomes == {"ok", "encodeFails"}

Next ==
  \/ \E text \in TypedPrompts : SetPrompt(text)
  \/ \E text \in TypedEditPrompts : SetEditPrompt(text)
  \/ EnterGenerate
  \/ ClickGenerate
  \/ ClickRegenerate
  \/ \E d \in {"p1"} : ClickRefinedPrompt(d)
  \/ \E i \in TaskIds, img \in Producible(NumImages) :
       GenerateImageResolves(i, img)
  \/ \E i \in TaskIds, msg \in ErrorMessages : GenerateImageRejects(i, msg)
  \/ \E i \in TaskIds, o \in ThumbnailOutcomes :
       GenerateThumbnailSettles(i, o)
  \/ \E i \in TaskIds : RefineResolves(i)
  \/ \E i \in TaskIds, msg \in ErrorMessages : RefineRejects(i, msg)
  \/ ClickApplyEdit
  \/ \E d \in {"e1"} : ClickSuggestedEdit(d)
  \/ \E i \in TaskIds, img \in Producible(NumImages) :
       EditImageResolves(i, img)
  \/ \E i \in TaskIds, msg \in ErrorMessages : EditImageRejects(i, msg)
  \/ \E i \in TaskIds, o \in ThumbnailOutcomes : EditThumbnailSettles(i, o)
  \/ ClickRegenerateSuggestions
  \/ \E i \in TaskIds : SuggestResolves(i)
  \/ \E i \in TaskIds, msg \in ErrorMessages : SuggestRejects(i, msg)
  \/ \E img \in Producible(NumImages), t \in BOOLEAN : FileSelected(img, t)
  \/ \E i \in TaskIds : FileReadResolves(i)
  \/ \E i \in TaskIds : FileReadRejects(i)
  \/ \E i \in TaskIds, o \in ThumbnailOutcomes : UploadThumbnailSettles(i, o)
  \/ OpenHistorySheet
  \/ CloseHistorySheet
  \/ \E k \in 1..MAX_HISTORY_LENGTH : handleHistoryImageClick(k)
  \/ handleUndo
  \/ handleReset

Spec == Init /\ [][Next]_vars

(***************************************************************************)
(* The program used sequentially, late in a session: the user acts only    *)
(* when no handler is suspended.  A run starts in the state reached from   *)
(* Init by Generate("p1") returning image 1 and then k - 1 edits "e1"      *)
(* returning the images 2..k, every call and encoding succeeding, for      *)
(* some k in 0..NumSeqImages - 1.                                          *)
(***************************************************************************)
RECURSIVE SessionUndoStack(_)
SessionUndoStack(k) ==
  IF k <= 1 THEN <<>> ELSE PushUndo(SessionUndoStack(k - 1), k - 1)

RECURSIVE SessionHistory(_)
SessionHistory(k) ==
  IF k = 0 THEN <<>>
  ELSE RecordThumbnail(SessionHistory(k - 1), createThumbnailDataUri(k))

InitSeq ==
  \E k \in 0..(NumSeqImages - 1) :
    /\ prompt = IF k = 0 THEN "" ELSE "p1"
    /\ editPrompt = ""
    /\ imageUrl = k
    /\ undoStack = SessionUndoStack(k)
    /\ isUploadedImage = FALSE
    /\ isLoading = FALSE
    /\ isRefining = FALSE
    /\ error = NoError
    /\ imageHistory = SessionHistory(k)
    /\ activeLoader = NoLoader
    /\ refinedPrompts = IF k = 0 THEN NoResult ELSE RefinementFor("p1")
    /\ suggestedEdits = IF k <= 1 THEN NoResult ELSE SuggestionsFor(k)
    /\ isHistorySheetOpen = FALSE
    /\ storage = Stringify(SessionHistory(k))
    /\ toasts = <<>>
    /\ tasks = <<>>
    /\ budget = MaxSeqOps
    /\ nextImage = k + 1
    /\ scenario = IF k = 0 THEN "start" ELSE "off"
    /\ mounted = TRUE
    /\ picture = NoSize
    /\ canvas = NoSize
    /\ queued = <<>>

Idle == tasks = <<>>

\* Inputs of the sequential runs: the remote model and the file dialog
\* produce the first image again or a new one, out of 1..NumSeqImages.
SeqProducible ==
  {1} \cup (IF nextImage <= NumSeqImages THEN {nextImage} ELSE {})

UserSeq ==
  \/ Idle /\ \E text \in Prompts : SetPrompt(text)
  \/ Idle /\ \E text \in EditPrompts : SetEditPrompt(text)
  \/ Idle /\ EnterGenerate
  \/ Idle /\ ClickGenerate
  \/ Idle /\ ClickRegenerate
  \/ Idle /\ \E d \in RefinedDescriptions : ClickRefinedPrompt(d)
  \/ Idle /\ ClickApplyEdit
  \/ Idle /\ \E d \in EditDescriptions : ClickSuggestedEdit(d)
  \/ Idle /\ ClickRegenerateSuggestions
  \/ Idle /\ \E img \in SeqProducible, t \in BOOLEAN : FileSelected(img, t)
  \/ Idle /\ OpenHistorySheet
  \/ Idle /\ CloseHistorySheet
  \/ Idle /\ \E k \in 1..MAX_HISTORY_LENGTH : handleHistoryImageClick(k)
  \/ Idle /\ handleUndo
  \/ Idle /\ handleReset

EnvSeq ==
  \/ \E img \in SeqProducible : GenerateImageResolves(1, img)
  \/ \E msg \in ErrorMessages : GenerateImageRejects(1, msg)
  \/ \E o \in Outcomes : GenerateThumbnailSettles(1, o)
  \/ RefineResolves(1)
  \/ \E msg \in ErrorMessages : RefineRejects(1, msg)
  \/ \E img \in SeqProducible : EditImageResolves(1, img)
  \/ \E msg \in ErrorMessages : EditImageRejects(1, msg)
  \/ \E o \in Outcomes : EditThumbnailSettles(1, o)
  \/ SuggestResolves(1)
  \/ \E msg \in ErrorMessages : SuggestRejects(1, msg)
  \/ FileReadResolves(1)
  \/ FileReadRejects(1)
  \/ \E o \in Outcomes : UploadThumbnailSettles(1, o)

NextSeq == UserSeq \/ EnvSeq

SpecSeq == InitSeq /\ [][NextSeq]_vars

\* Sequential use in which every pending remote call, thumbnail encoding
\* and file read eventually settles, one way or the other.
SpecSeqLive == InitSeq /\ [][NextSeq]_vars /\ WF_vars(EnvSeq)

(***************************************************************************)
(* The program late in a session with handlers that overlap: from the      *)
(* session states of InitSeq the user chooses files, generates and edits   *)
(* whenever the controls allow it (the Upload button is enabled while a    *)
(* file is read and its thumbnail encoded, lines 480-489), and every       *)
(* pending promise may settle in any order.                                *)
(***************************************************************************)
UserOverlap ==
  \/ \E img \in SeqProducible, t \in BOOLEAN : FileSelected(img, t)
  \/ ClickGenerate
  \/ \E text \in EditPrompts : SetEditPrompt(text)
  \/ ClickApplyEdit

EnvOverlap ==
  \E i \in TaskIds :
    \/ \E img \in SeqProducible : GenerateImageResolves(i, img)
    \/ \E msg \in ErrorMessages : GenerateImageRejects(i, msg)
    \/ \E o \in Outcomes : GenerateThumbnailSettles(i, o)
    \/ RefineResolves(i)
    \/ \E msg \in ErrorMessages : RefineRejects(i, msg)
    \/ \E img \in SeqProducible : EditImageResolves(i, img)
    \/ \E msg \in ErrorMessages : EditImageRejects(i, msg)
    \/ \E o \in Outcomes : EditThumbnailSettles(i, o)
    \/ SuggestResolves(i)
    \/ \E msg \in ErrorMessages : SuggestRejects(i, msg)
    \/ FileReadResolves(i)
    \/ FileReadRejects(i)
    \/ \E o \in Outcomes : UploadThumbnailSettles(i, o)

NextOverlap == UserOverlap \/ EnvOverlap

SpecOverlap == InitSeq /\ [][NextOverlap]_vars

(***************************************************************************)
(* The start of the program: the component mounts with whatever the        *)
(* storage slot holds, then is used sequentially.                          *)
(***************************************************************************)
\* Operations the user starts in a run from the start (SpecStart).
MaxStartOps == 2

\* What the slot can hold at the start: nothing, a truncated text, an
\* object, and lists: empty, of two, of six, and with a thumbnail twice.
StoredContents ==
  { <<>>,
    <<LBracket, ThumbBase + 1>>,
    <<LBrace, RBrace>>,
    Stringify(<<>>),
    Stringify(<<ThumbBase + 2, ThumbBase + 1>>),
    Stringify(<<ThumbBase + 6, ThumbBase + 5, ThumbBase + 4, ThumbBase + 2,
                ThumbBase + 1, ThumbBase + 7>>),
    Stringify(<<ThumbBase + 1, ThumbBase + 2, ThumbBase + 1>>) }

WriteOutcomes == {"ok", "saveFails"}

InitStart ==
  /\ prompt = ""
  /\ editPrompt = ""
  /\ imageUrl = NULL
  /\ undoStack = <<>>
  /\ isUploadedImage = FALSE
  /\ isLoading = FALSE
  /\ isRefining = FALSE
  /\ error = NoError
  /\ imageHistory = <<>>
  /\ activeLoader = NoLoader
  /\ refinedPrompts = NoResult
  /\ suggestedEdits = NoResult
  /\ isHistorySheetOpen = FALSE
  /\ storage \in StoredContents
  /\ toasts = <<>>
  /\ tasks = <<>>
  /\ budget = MaxStartOps
  /\ nextImage = 1
  /\ scenario = "start"
  /\ mounted = FALSE
  /\ picture = NoSize
  /\ canvas = NoSize
  /\ queued = <<>>

\* The first render's effects (lines 106-141), which run one after the
\* other: the load effect reads the slot and passes a list to
\* setImageHistory, which queues it; the save effect then writes the empty
\* list of the first render.  first: whether that write is accepted.
Mount(first) ==
  LET loads == storage # <<>> /\ IsArrayText(storage)
      throws == storage # <<>> /\ ~Parses(storage)
  IN /\ ~mounted /\ queued = <<>>
     /\ queued' = IF loads THEN <<ParsedList(storage)>> ELSE <<>>
     /\ mounted' = ~loads
     /\ storage' = IF first = "ok" THEN Stringify(<<>>) ELSE storage
     /\ toasts' =
          (IF throws THEN <<"History Load Failed">> ELSE <<>>)
          \o (IF first = "saveFails" THEN <<"History Save Failed">> ELSE <<>>)
     /\ UNCHANGED <<prompt, editPrompt, imageUrl, undoStack, isUploadedImage,
                    isLoading, isRefining, error, imageHistory, activeLoader,
                    refinedPrompts, suggestedEdits, isHistorySheetOpen,
                    tasks, budget, nextImage, scenario, picture, canvas>>

\* The render with the loaded list, and the save effect that follows it
\* (line 128, dependency imageHistory of line 141).
Rerender(second) ==
  /\ ~mounted /\ queued # <<>>
  /\ imageHistory' = queued[1]
  /\ queued' = <<>>
  /\ mounted' = TRUE
  /\ storage' = IF second = "ok" THEN Stringify(queued[1]) ELSE storage
  /\ toasts' = IF second = "saveFails" THEN <<"History Save Failed">>
               ELSE <<>>
  /\ UNCHANGED <<prompt, editPrompt, imageUrl, undoStack, isUploadedImage,
                 isLoading, isRefining, error, activeLoader,
                 refinedPrompts, suggestedEdits, isHistorySheetOpen,
                 tasks, budget, nextImage, scenario, picture, canvas>>

\* The page is closed or reloaded, at any moment: the component's state is
\* gone, pending handlers with it; the slot stays.
Restart ==
  /\ mounted \/ queued # <<>>
  /\ budget > 0
  /\ budget' = budget - 1
  /\ prompt' = ""
  /\ editPrompt' = ""
  /\ imageUrl' = NULL
  /\ undoStack' = <<>>
  /\ isUploadedImage' = FALSE
  /\ isLoading' = FALSE
  /\ isRefining' = FALSE
  /\ error' = NoError
  /\ imageHistory' = <<>>
  /\ activeLoader' = NoLoader
  /\ refinedPrompts' = NoResult
  /\ suggestedEdits' = NoResult
  /\ isHistorySheetOpen' = FALSE
  /\ toasts' = <<>>
  /\ tasks' = <<>>
  /\ scenario' = "off"
  /\ mounted' = FALSE
  /\ queued' = <<>>
  /\ UNCHANGED <<storage, nextImage, picture, canvas>>

NextStart ==
  \/ \E first \in WriteOutcomes : Mount(first)
  \/ \E second \in WriteOutcomes : Rerender(second)
  \/ Restart
  \/ mounted /\ UserSeq
  \/ mounted /\ EnvSeq

SpecStart == InitStart /\ [][NextStart]_vars

(***************************************************************************)
(* The thumbnail of one picture: img.onload of createThumbnailDataUri      *)
(* (lines 57-81) for a picture of any of the sizes looked at.              *)
(***************************************************************************)
InitThumb ==
  /\ prompt = ""
  /\ editPrompt = ""
  /\ imageUrl = NULL
  /\ undoStack = <<>>
  /\ isUploadedImage = FALSE
  /\ isLoading = FALSE
  /\ isRefining = FALSE
  /\ error = NoError
  /\ imageHistory = <<>>
  /\ activeLoader = NoLoader
  /\ refinedPrompts = NoResult
  /\ suggestedEdits = NoResult
  /\ isHistorySheetOpen = FALSE
  /\ storage = Stringify(<<>>)
  /\ toasts = <<>>
  /\ tasks = <<>>
  /\ budget = 0
  /\ nextImage = 1
  /\ scenario = "off"
  /\ mounted = TRUE
  /\ picture \in [width : Sides, height : Sides]
  /\ canvas = NoSize
  /\ queued = <<>>

DrawThumbnail ==
  /\ canvas = NoSize
  /\ canvas' = ThumbnailSize(picture.width, picture.height)
  /\ UNCHANGED <<prompt, editPrompt, imageUrl, undoStack, isUploadedImage,
                 isLoading, isRefining, error, imageHistory, activeLoader,
                 refinedPrompts, suggestedEdits, isHistorySheetOpen, storage,
                 toasts, tasks, budget, nextImage, scenario, mounted,
                 picture, queued>>

NextThumb == DrawThumbnail

SpecThumb == InitThumb /\ [][NextThumb]_vars


(***************************************************************************)
(* Vocabulary of the properties.                                           *)
(***************************************************************************)
Range(s) == {s[n] : n \in DOMAIN s}

NoDuplicates(s) == \A m, n \in DOMAIN s : s[m] = s[n] => m = n

\* Task i is the handler that takes the step.
StepsFrom(i, pc) ==
  /\ i \in DOMAIN tasks
  /\ tasks[i].pc = pc
  /\ \/ /\ Len(tasks') = Len(tasks)
        /\ tasks'[i].pc # pc
        /\ \A j \in DOMAIN tasks : j # i => tasks'[j] = tasks[j]
     \/ tasks' = RemoveAt(tasks, i)

\* Task i's thumbnail was encoded in this step, and recorded.
Records(i) ==
  /\ StepsFrom(i, "thumbnail")
  /\ ~RaisedNext("History Update Failed")

(***************************************************************************)
(* C1: the history list never holds more than 5 entries nor the same       *)
(* thumbnail twice; every record puts its thumbnail at index 0; recording  *)
(* a thumbnail already present moves it to the front, the list keeping its *)
(* length and the order of the others; recording a new thumbnail into a    *)
(* full list drops the last entry, and into a shorter list drops nothing.  *)
(***************************************************************************)
C1_Bounded ==
  /\ Len(imageHistory) <= MAX_HISTORY_LENGTH
  /\ NoDuplicates(imageHistory)

C1_RecordStep ==
  \A i \in DOMAIN tasks :
    Records(i) =>
      LET t == createThumbnailDataUri(tasks[i].img)
          others == SelectSeq(imageHistory, LAMBDA x : x # t)
      IN /\ imageHistory' # <<>>
         /\ imageHistory'[1] = t
         /\ t \in Range(imageHistory) =>
              /\ Len(imageHistory') = Len(imageHistory)
              /\ Tail(imageHistory') = others
         /\ (t \notin Range(imageHistory)
             /\ Len(imageHistory) = MAX_HISTORY_LENGTH) =>
              /\ Len(imageHistory') = MAX_HISTORY_LENGTH
              /\ Tail(imageHistory') =
                   SubSeq(imageHistory, 1, MAX_HISTORY_LENGTH - 1)
         /\ (t \notin Range(imageHistory)
             /\ Len(imageHistory) < MAX_HISTORY_LENGTH) =>
              Tail(imageHistory') = imageHistory

\* The list changes in record steps only.
C1_OnlyRecords ==
  imageHistory' # imageHistory => \E i \in DOMAIN tasks : Records(i)

C1_HistoryRecord ==
  []C1_Bounded /\ [][C1_RecordStep /\ C1_OnlyRecords]_vars

\* A full history whose oldest entry was dropped for the newest image.
C1_Witness ==
  /\ Len(imageHistory) = MAX_HISTORY_LENGTH
  /\ imageHistory[1] = createThumbnailDataUri(NumSeqImages)
  /\ createThumbnailDataUri(1) \notin Range(imageHistory)


(***************************************************************************)
(* C2: the undo stack never holds more than 5 entries; an Edit pushes the  *)
(* current image on top, dropping the oldest entry when that makes a       *)
(* sixth; an Undo restores the entry on top and removes it, so successive  *)
(* Undos restore the pushed images last-in-first-out; with an empty stack  *)
(* no Undo takes place and the current image is not changed by one.        *)
(***************************************************************************)
C2_Bounded == Len(undoStack) <= MAX_UNDO_STEPS

\* An Edit passed its validation in this step: its handler is suspended at
\* the remote call.
EditStarts ==
  /\ Len(tasks') = Len(tasks) + 1
  /\ tasks'[Len(tasks')].kind = "edit"

Undoes == RaisedNext("Undo Successful")

C2_PushStep ==
  EditStarts =>
    LET n == IF Len(undoStack) < MAX_UNDO_STEPS
             THEN Len(undoStack) + 1 ELSE MAX_UNDO_STEPS
    IN /\ Len(undoStack') = n
       /\ undoStack'[1] = imageUrl
       /\ Tail(undoStack') = SubSeq(undoStack, 1, n - 1)

C2_UndoStep ==
  Undoes =>
    /\ undoStack # <<>>
    /\ imageUrl' = undoStack[1]
    /\ undoStack' = Tail(undoStack)

C2_UndoStack == []C2_Bounded /\ [][C2_PushStep /\ C2_UndoStep]_vars

\* Five Undos after a sixth push: the oldest image (1) was dropped, and
\* the Undos went back to image 2, where the stack is empty.
C2_Witness ==
  /\ toasts = <<"Undo Successful">>
  /\ undoStack = <<>>
  /\ imageUrl = 2
  /\ nextImage = NumSeqImages + 1

(***************************************************************************)
(* C3: when the remote edit call fails, the rollback leaves the current    *)
(* image equal to the image A the Edit started from, and the undo stack    *)
(* as long as it was before the Edit pushed A, whatever its depth was.     *)
(***************************************************************************)
EditFails(i) ==
  /\ i \in DOMAIN tasks
  /\ tasks[i].kind = "edit"
  /\ tasks[i].pc = "editImage"
  /\ tasks' = RemoveAt(tasks, i)

C3_RollbackStep ==
  \A i \in DOMAIN tasks :
    EditFails(i) =>
      /\ imageUrl' = tasks[i].img
      /\ Len(undoStack') = Len(tasks[i].pre)

C3_EditRollback == [][C3_RollbackStep]_vars

\* The rollback of an Edit that started with a full stack.
C3_Witness ==
  /\ Len(undoStack) = MAX_UNDO_STEPS - 1
  /\ imageUrl = NumSeqImages - 1
  /\ toasts = <<"Editing Failed">>


(***************************************************************************)
(* C4: when Generate(p2) is started before the refinement call of an       *)
(* earlier Generate(p1) has resolved, the late result for p1 is discarded: *)
(* once the refinement for p2 has arrived, the settling of p1's call does  *)
(* not change the refinement set held in state.                            *)
(***************************************************************************)
\* Task i is a Generate whose refinement call is pending.
Refining(i) ==
  /\ i \in DOMAIN tasks
  /\ tasks[i].kind = "generate"
  /\ tasks[i].pc = "refinePromptV2"

\* The refinement call of task i settles, no other Generate being pending.
\* Every Generate clears the set when it starts, so a set that is not
\* empty then is the one that arrived for the latest Generate.
LastRefinementSettles(i) ==
  /\ Refining(i)
  /\ tasks' = RemoveAt(tasks, i)
  /\ \A j \in DOMAIN tasks : j # i => tasks[j].kind # "generate"

C4_StaleStep ==
  \A i \in DOMAIN tasks :
    (/\ LastRefinementSettles(i)
     /\ tasks[i].superseded
     /\ refinedPrompts # NoResult) =>
      refinedPrompts' = refinedPrompts

C4_StaleRefinementDiscarded == [][C4_StaleStep]_vars

(***************************************************************************)
(* C5: a Generate whose prompt is empty or whitespace-only never invokes   *)
(* the remote generate capability, and an Edit whose instruction (from the *)
(* field or from a suggestion) is empty or whitespace-only, or whose       *)
(* current image is null, never invokes the remote edit capability.        *)
(***************************************************************************)
Blank(text) == text \in {"", " "}

\* A remote call is invoked by a handler that goes on to wait for it.
C5_NoBlankInvocation ==
  \A i \in DOMAIN tasks :
    /\ tasks[i].kind = "generate" => ~Blank(tasks[i].arg)
    /\ tasks[i].kind = "edit" =>
         (~Blank(tasks[i].arg) /\ (tasks[i].pc = "editImage" => tasks[i].img # NULL))

\* A step that ends with a validation message invokes nothing.
C5_RefusalStep ==
  (/\ error' # error
   /\ error' \in {<<"Cannot generate image from an empty prompt.">>,
                  <<"Please enter a prompt to edit the image.">>,
                  <<"No image to edit. Please generate or upload an image first.">>})
    => tasks' = tasks

HistoryOf(i1, i2) ==
  IF createThumbnailDataUri(i2) = createThumbnailDataUri(i1)
  THEN <<createThumbnailDataUri(i1)>>
  ELSE <<createThumbnailDataUri(i2), createThumbnailDataUri(i1)>>

C6_AfterGenerate ==
  scenario = "generated" =>
    /\ imageUrl # NULL
    /\ imageHistory = <<createThumbnailDataUri(imageUrl)>>
    /\ undoStack = <<>>

\* While the Edit runs: I1 is on the stack, and once the remote call has
\* returned I2 it is the current image.
C6_DuringEdit ==
  scenario = "editing" =>
    /\ Len(undoStack) = 1
    /\ tasks[1].pc # "editImage" => imageUrl = tasks[1].img
    /\ tasks[1].pc = "suggestEdits" =>
         imageHistory = HistoryOf(undoStack[1], imageUrl)

C6_AfterEdit ==
  scenario = "edited" =>
    /\ Len(undoStack) = 1
    /\ imageUrl # NULL
    /\ imageHistory = HistoryOf(undoStack[1], imageUrl)

C6_Steps ==
  /\ (scenario = "generated" /\ scenario' = "editing") =>
        undoStack' = <<imageUrl>>
  /\ (scenario = "editing" /\ scenario' = "edited") =>
        (imageUrl' = imageUrl /\ undoStack' = undoStack
         /\ imageHistory' = imageHistory)
  /\ (scenario = "edited" /\ scenario' = "undone") =>
        (imageUrl' = undoStack[1] /\ undoStack' = <<>>
         /\ imageHistory' = imageHistory)

LoadsBaseImage ==
  \/ \E i \in DOMAIN tasks :
       /\ tasks[i].kind = "upload"
       /\ StepsFrom(i, "readAsDataURL")
       /\ Len(tasks') = Len(tasks)
  \/ \E i \in DOMAIN tasks :
       /\ tasks[i].kind = "generate"
       /\ StepsFrom(i, "generateImage")
       /\ Len(tasks') = Len(tasks)
  \/ RaisedNext("Image Loaded")

C7_LoadStep ==
  (LoadsBaseImage /\ imageUrl' # imageUrl) =>
    suggestedEdits' \in {NoResult, SuggestionsFor(imageUrl')}

C7_NoStaleSuggestions == [][C7_LoadStep]_vars

\* An uploaded image is shown while its thumbnail is being encoded, beside
\* the suggestions computed for the image it replaced.
C7_Witness ==
  /\ tasks # <<>>
  /\ tasks[1].kind = "upload" /\ tasks[1].pc = "thumbnail"
  /\ imageUrl = tasks[1].img
  /\ suggestedEdits # NoResult
  /\ suggestedEdits # SuggestionsFor(imageUrl)

(***************************************************************************)
(* C8: at most one foreground remote call (generateImage, editImage,       *)
(* suggestEdits) is pending in any reachable state: while one is pending,  *)
(* or an upload is reading its file or encoding its thumbnail, no action   *)
(* of the UI starts a second one.                                          *)
(***************************************************************************)
ForegroundCalls == {"generateImage", "editImage", "suggestEdits"}

PendingForeground == {i \in DOMAIN tasks : tasks[i].pc \in ForegroundCalls}

C8_ForegroundExclusion == Cardinality(PendingForeground) <= 1

\* generateImage and the suggestEdits call of an upload are both pending.
C8_Witness ==
  /\ Len(tasks) = 2
  /\ tasks[1].kind = "upload" /\ tasks[1].pc = "suggestEdits"
  /\ tasks[2].kind = "generate" /\ tasks[2].pc = "generateImage"

(***************************************************************************)
(* C9: when the prompt-refinement call issued after a successful Generate  *)
(* settles, by a result or by any failure (a 429 rate limit included), the *)
(* error state is left as it is, no notification is raised, and the        *)
(* generated image and the history are kept.                               *)
(***************************************************************************)
RefinementSettles(i) ==
  /\ Refining(i)
  /\ tasks' = RemoveAt(tasks, i)

C9_SettleStep ==
  \A i \in DOMAIN tasks :
    RefinementSettles(i) =>
      /\ error' = error
      /\ toasts' = <<>>
      /\ imageUrl' = imageUrl
      /\ imageHistory' = imageHistory

C9_RefineFailureSilent == [][C9_SettleStep]_vars

\* A failed refinement call reported to the user as a rate limit.
C9_Witness ==
  /\ toasts = <<"Rate Limit Exceeded">>
  /\ error = RateLimitMessage
  /\ imageUrl # NULL
  /\ refinedPrompts = NoResult
  /\ suggestedEdits = NoResult
  /\ imageHistory = <<createThumbnailDataUri(imageUrl)>>
  /\ tasks = <<>>

(***************************************************************************)
(* C10: after a successful Generate the status returns to idle (isLoading  *)
(* false, activeLoader null) without waiting for the refinement call:      *)
(* while the refinement call of a Generate is the only call pending, the   *)
(* status is idle and the generated image is displayed.                    *)
(***************************************************************************)
C10_IdleWhileRefining ==
  (Len(tasks) = 1 /\ Refining(1)) =>
    /\ ~isLoading
    /\ activeLoader = NoLoader
    /\ imageUrl = tasks[1].img

\* The refinement call is pending and the page still shows the generation
\* as running.
C10_Witness ==
  /\ Len(tasks) = 1 /\ Refining(1)
  /\ isLoading /\ isRefining
  /\ activeLoader = "generate"
  /\ imageUrl = tasks[1].img


(***************************************************************************)
(* C11: when the write of the history list to storage fails, the failure   *)
(* is reported by a notification only: the in-memory history keeps the     *)
(* update that triggered the write, the current image and the undo stack   *)
(* are unchanged, no error is set, and the operation goes on to its next   *)
(* call with the status it has after a successful write.                   *)
(***************************************************************************)
SaveFails == RaisedNext("History Save Failed")

\* The status a handler has after its thumbnail was recorded: a Generate
\* keeps its own, an Edit or an upload goes on to suggest.
StatusAfterRecord(kind) ==
  IF kind = "generate" THEN <<isLoading, activeLoader>>
  ELSE <<TRUE, "suggest">>

\* The error state after it: an Edit or an upload clears it when it goes
\* on to suggest.
ErrorAfterRecord(kind) == IF kind = "generate" THEN error ELSE NoError

C11_SaveFailureStep ==
  SaveFails =>
    \E i \in DOMAIN tasks :
      /\ StepsFrom(i, "thumbnail")
      /\ Len(tasks') = Len(tasks)
      /\ imageHistory' # <<>>
      /\ imageHistory'[1] = createThumbnailDataUri(tasks[i].img)
      /\ Tail(imageHistory') =
           SubSeq(SelectSeq(imageHistory,
                            LAMBDA x : x # createThumbnailDataUri(tasks[i].img)),
                  1, Len(imageHistory') - 1)
      /\ storage' = storage
      /\ error' = ErrorAfterRecord(tasks[i].kind)
      /\ imageUrl' = imageUrl
      /\ undoStack' = undoStack
      /\ <<isLoading', activeLoader'>> = StatusAfterRecord(tasks[i].kind)

C11_SaveFailureKeepsUpdate == [][C11_SaveFailureStep]_vars

\* A failed write left the new entry in memory and the old list in storage.
C11_Witness ==
  /\ toasts = <<"History Save Failed">>
  /\ imageHistory # <<>>
  /\ storage # Stringify(imageHistory)
  /\ imageUrl # NULL
  /\ imageHistory[1] = createThumbnailDataUri(imageUrl)


(***************************************************************************)
(* C12: when the component starts with the storage slot absent or holding  *)
(* malformed content (a text that does not parse, or one that parses to    *)
(* something other than a list), the history starts as the empty list, a   *)
(* load error is reported, and the page can be used.                       *)
(***************************************************************************)
Mounts == ~mounted /\ mounted'

Unparseable(text) == text # <<>> /\ ~Parses(text)

NotAList(text) == text # <<>> /\ Parses(text) /\ ~IsArrayText(text)

C12_LoadStep ==
  (Mounts /\ (storage = <<>> \/ Unparseable(storage) \/ NotAList(storage))) =>
    /\ imageHistory' = <<>>
    /\ RaisedNext("History Load Failed")
    /\ ~isLoading' /\ ~isRefining' /\ ~isHistorySheetOpen'
    /\ error' = NoError

C12_LoadOnStart == [][C12_LoadStep]_vars

\* The component has started on a text that does not parse, and said so.
C12_Witness ==
  /\ mounted
  /\ toasts = <<"History Load Failed">>
  /\ imageHistory = <<>>
  /\ storage = Stringify(<<>>)


(***************************************************************************)
(* C13: whatever the storage slot holds at the start and whatever is done  *)
(* afterwards, the history kept in memory once the component has started,  *)
(* and every text written to the slot, is a list of at most 5 thumbnails   *)
(* without duplicates: a stored list that is longer or has duplicates is   *)
(* neither kept in memory nor written back in that form.                   *)
(***************************************************************************)
WellFormedHistory(list) ==
  /\ Len(list) <= MAX_HISTORY_LENGTH
  /\ NoDuplicates(list)

C13_InMemory == mounted => WellFormedHistory(imageHistory)

C13_WriteStep ==
  storage' # storage =>
    /\ IsArrayText(storage')
    /\ WellFormedHistory(ParsedList(storage'))

C13_PersistedHistory == []C13_InMemory /\ [][C13_WriteStep]_vars

\* A stored list of six was loaded and written back as it was.
C13_Witness ==
  /\ mounted
  /\ Len(imageHistory) > MAX_HISTORY_LENGTH
  /\ storage = Stringify(imageHistory)
  /\ toasts = <<>>


(***************************************************************************)
(* C14: Reset sets the prompt text and the edit-prompt text to empty, the  *)
(* current image to null, the undo stack to empty, the error to null and   *)
(* both suggestion sets to empty, and leaves the history, in memory and in *)
(* storage, as it is.                                                      *)
(***************************************************************************)
\* The only step that takes the image away without starting a handler.
Resets == imageUrl # NULL /\ imageUrl' = NULL /\ tasks' = tasks

C14_ResetStep ==
  Resets =>
    /\ prompt' = ""
    /\ editPrompt' = ""
    /\ undoStack' = <<>>
    /\ error' = NoError
    /\ refinedPrompts' = NoResult
    /\ suggestedEdits' = NoResult
    /\ imageHistory' = imageHistory
    /\ storage' = storage

C14_ResetClears == [][C14_ResetStep]_vars

\* After a Reset late in a session: everything cleared but the history.
C14_Witness ==
  /\ imageUrl = NULL
  /\ budget = MaxSeqOps
  /\ prompt = "" /\ editPrompt = ""
  /\ undoStack = <<>>
  /\ refinedPrompts = NoResult /\ suggestedEdits = NoResult
  /\ Len(imageHistory) = MAX_HISTORY_LENGTH
  /\ storage = Stringify(imageHistory)


(***************************************************************************)
(* C15: whenever the remote call of Generate, Edit or Suggest fails, the   *)
(* operation returns to idle with the error state set to a message: the    *)
(* rate-limit message when the failure text contains 429, and otherwise    *)
(* the failure text behind the phrase of the operation that failed.        *)
(***************************************************************************)
\* The remote call that task i waits for fails: the handler ends there,
\* and no suggestions have arrived.
RemoteCallFails(i, call) ==
  /\ i \in DOMAIN tasks
  /\ tasks[i].pc = call
  /\ tasks' = RemoveAt(tasks, i)
  /\ call = "suggestEdits" => suggestedEdits' = NoResult

ContextPhrase(call) ==
  CASE call = "generateImage" -> "Could not generate image."
    [] call = "editImage" -> "Could not edit image."
    [] call = "suggestEdits" -> "Could not suggest edits."

SurfacedMessages(call) ==
  {RateLimitMessage}
    \cup {<<ContextPhrase(call), msg>> :
            msg \in ErrorMessages \ {"429 Too Many Requests"}}

C15_FailureStep ==
  \A i \in DOMAIN tasks : \A call \in ForegroundCalls :
    RemoteCallFails(i, call) =>
      /\ error' \in SurfacedMessages(call)
      /\ (error' = RateLimitMessage) = RaisedNext("Rate Limit Exceeded")
      /\ ~isLoading'
      /\ activeLoader' = NoLoader

C15_ProviderFailureSurfaced == [][C15_FailureStep]_vars

\* A failed Suggest, surfaced with its own phrase and the failure text.
C15_Witness ==
  /\ error = <<"Could not suggest edits.", "model overloaded">>
  /\ toasts = <<"Suggestion Failed">>
  /\ tasks = <<>>
  /\ ~isLoading


(***************************************************************************)
(* C16: for a picture whose longer side exceeds 400 the thumbnail's longer *)
(* side is exactly 400 and its other side is the picture's other side      *)
(* times 400 over the longer side, rounded up or down to a whole number;   *)
(* a picture whose sides are both at most 400 keeps its size.              *)
(***************************************************************************)
Longer(size) == IF size.width > size.height THEN size.width ELSE size.height

Shorter(size) == IF size.width > size.height THEN size.height ELSE size.width

C16_ThumbnailBound ==
  canvas # NoSize =>
    IF Longer(picture) > 400
    THEN /\ Longer(canvas) = 400
         /\ (picture.width > picture.height) => canvas.width = 400
         /\ (picture.height > picture.width) => canvas.height = 400
         /\ Shorter(canvas) * Longer(picture) <
              Shorter(picture) * 400 + Longer(picture)
         /\ Shorter(canvas) * Longer(picture) >
              Shorter(picture) * 400 - Longer(picture)
    ELSE canvas = picture

\* A square picture whose thumbnail is not square.
C16_Witness ==
  /\ picture = [width |-> 539, height |-> 539]
  /\ canvas = [width |-> 399, height |-> 400]

(***************************************************************************)
(* C17: a Generate with a valid prompt, before generateImage is called,    *)
(* sets the current image to null, empties the undo stack and both         *)
(* suggestion sets, clears the error and sets the status to generating,    *)
(* and all of these hold in every state in which the call of generateImage *)
(* is pending.                                                             *)
(***************************************************************************)
GenerateReset ==
  /\ imageUrl = NULL
  /\ undoStack = <<>>
  /\ refinedPrompts = NoResult
  /\ suggestedEdits = NoResult
  /\ error = NoError
  /\ isLoading /\ activeLoader = "generate"

GeneratePending ==
  \E i \in DOMAIN tasks :
    tasks[i].kind = "generate" /\ tasks[i].pc = "generateImage"

GenerateStarts ==
  /\ Len(tasks') = Len(tasks) + 1
  /\ tasks'[Len(tasks')].kind = "generate"

C17_StartStep ==
  GenerateStarts =>
    /\ Trim(tasks'[Len(tasks')].arg) # ""
    /\ tasks'[Len(tasks')].pc = "generateImage"
    /\ GenerateReset'

C17_WhilePending == GeneratePending => GenerateReset

C17_GenerateResets == []C17_WhilePending /\ [][C17_StartStep]_vars

\* The call of generateImage is pending and a file that was chosen before
\* the Generate has been read and is shown.
C17_Witness ==
  /\ GeneratePending
  /\ imageUrl # NULL
  /\ \E i \in DOMAIN tasks : tasks[i].kind = "upload" /\ tasks[i].img = imageUrl

(***************************************************************************)
(* C18: when generateImage fails the Generate ends there: the status is    *)
(* idle and the error is set, the current image is null and the undo stack *)
(* empty (what was shown before the Generate is not brought back), the     *)
(* history is unchanged and refinePromptV2 is not called.                  *)
(***************************************************************************)
GenerateFails(i) ==
  /\ i \in DOMAIN tasks
  /\ tasks[i].kind = "generate" /\ tasks[i].pc = "generateImage"
  /\ toasts' # <<>>

C18_FailureStep ==
  \A i \in DOMAIN tasks :
    GenerateFails(i) =>
      /\ ~isLoading' /\ ~isRefining' /\ activeLoader' = NoLoader
      /\ error' \in SurfacedMessages("generateImage")
      /\ imageUrl' = NULL
      /\ undoStack' = <<>>
      /\ imageHistory' = imageHistory /\ storage' = storage
      /\ tasks' = <<>>
      /\ refinedPrompts' = NoResult

EditSucceeds(i) ==
  /\ StepsFrom(i, "editImage")
  /\ tasks[i].kind = "edit"
  /\ Len(tasks') = Len(tasks)

EditRecords(i) ==
  /\ StepsFrom(i, "thumbnail")
  /\ tasks[i].kind = "edit"

\* The image is set, nothing else yet; tasks[i].img is the image the edit
\* started from, tasks'[i].img the edited one.
C19_ImageStep ==
  \A i \in DOMAIN tasks :
    EditSucceeds(i) =>
      /\ tasks'[i].pc = "thumbnail"
      /\ imageUrl' = tasks'[i].img
      /\ imageHistory' = imageHistory
      /\ editPrompt' = editPrompt
      /\ isLoading' /\ activeLoader' = "edit"
      /\ undoStack' = undoStack
      /\ undoStack # <<>> /\ Head(undoStack) = tasks[i].img

C19_RecordStep ==
  \A i \in DOMAIN tasks :
    EditRecords(i) =>
      /\ imageUrl' = tasks[i].img /\ imageUrl' = imageUrl
      /\ Records(i) =>
           /\ imageHistory' # <<>>
           /\ imageHistory'[1] = createThumbnailDataUri(tasks[i].img)
      /\ editPrompt' = ""
      /\ Len(tasks') = Len(tasks)
      /\ tasks'[i].pc = "suggestEdits"
      /\ tasks'[i].img = tasks[i].img
      /\ isLoading' /\ activeLoader' = "suggest"
      /\ undoStack' = undoStack /\ undoStack # <<>>

EditPending(i) ==
  /\ i \in DOMAIN tasks
  /\ tasks[i].kind = "edit" /\ tasks[i].pc = "editImage"

C20_PushedStep ==
  EditStarts =>
    /\ tasks'[Len(tasks')].pc = "editImage"
    /\ tasks'[Len(tasks')].img = imageUrl
    /\ undoStack' # <<>> /\ Head(undoStack') = imageUrl

C20_WhilePending ==
  \A i \in DOMAIN tasks :
    EditPending(i) => undoStack # <<>> /\ Head(undoStack) = imageUrl

C20_PopStep ==
  \A i \in DOMAIN tasks :
    EditFails(i) =>
      /\ Len(undoStack') = Len(undoStack) - 1
      /\ undoStack = <<tasks[i].img>> \o undoStack'

C20_PushAndPop ==
  []C20_WhilePending /\ [][C20_PushedStep /\ C20_PopStep]_vars

\* The call of editImage is pending and a file read meanwhile has emptied
\* the undo stack and replaced the current image.
C20_Witness ==
  \E i \in DOMAIN tasks :
    /\ EditPending(i)
    /\ undoStack = <<>>
    /\ imageUrl # tasks[i].img


(***************************************************************************)
(* C21: an Undo changes the current image and the undo stack only: with a  *)
(* non-empty stack the current image becomes the top entry and that entry  *)
(* is removed, while both suggestion sets, the prompt and edit-prompt      *)
(* texts, the history, the error and the status stay as they are; with an  *)
(* empty stack nothing changes.                                            *)
(***************************************************************************)
\* What an Undo must leave alone.
UndoFrame ==
  /\ refinedPrompts' = refinedPrompts /\ suggestedEdits' = suggestedEdits
  /\ prompt' = prompt /\ editPrompt' = editPrompt
  /\ imageHistory' = imageHistory /\ storage' = storage
  /\ error' = error
  /\ isLoading' = isLoading /\ isRefining' = isRefining
  /\ activeLoader' = activeLoader
  /\ isUploadedImage' = isUploadedImage
  /\ tasks' = tasks

C21_UndoStep ==
  Undoes =>
    /\ undoStack # <<>>
    /\ imageUrl' = Head(undoStack)
    /\ undoStack' = Tail(undoStack)
    /\ UndoFrame

\* With an empty stack the Undo button is disabled (line 632) and the
\* handler's condition (line 386) is false: no Undo takes place.
C21_EmptyStep == undoStack = <<>> => ~Undoes

C21_UndoFrame == [][C21_UndoStep /\ C21_EmptyStep]_vars

\* An Undo that went back to an earlier image with the suggestions, the
\* typed edit prompt and the error of the image it left still in place.
C21_Witness ==
  /\ toasts = <<"Undo Successful">>
  /\ suggestedEdits # NoResult
  /\ refinedPrompts # NoResult
  /\ editPrompt # ""
  /\ imageHistory # <<>>


(***************************************************************************)
(* C22: loading an image by upload or by history selection makes it the    *)
(* current image, empties the undo stack, the refined prompts and the      *)
(* suggested edits, marks the image as uploaded, and then calls            *)
(* suggestEdits for exactly that image; an Undo right after such a load    *)
(* changes nothing, the stack being empty.                                 *)
(***************************************************************************)
LoadKinds == {"upload", "history"}

\* The step of a load in which handleSuggestEdits is called.
LoadSuggests == RaisedNext("Image Uploaded") \/ RaisedNext("Image Loaded")

\* Task i is a load whose image is shown.
Loaded(i) ==
  /\ i \in DOMAIN tasks
  /\ tasks[i].kind \in LoadKinds
  /\ tasks[i].pc \in {"thumbnail", "suggestEdits"}

C22_LoadStep ==
  LoadSuggests =>
    /\ tasks' # <<>>
    /\ LET t == tasks'[Len(tasks')]
       IN /\ t.kind \in LoadKinds
          /\ t.pc = "suggestEdits"
          /\ t.img = imageUrl'
    /\ imageUrl' # NULL
    /\ undoStack' = <<>>
    /\ refinedPrompts' = NoResult
    /\ suggestedEdits' = NoResult
    /\ isUploadedImage'
    /\ isLoading' /\ activeLoader' = "suggest"

\* The image is the loaded one and the stack is empty from the moment the
\* image is shown until its suggestions have settled.
C22_WhileLoaded ==
  \A i \in DOMAIN tasks :
    Loaded(i) => imageUrl = tasks[i].img /\ undoStack = <<>>

C22_SettleStep ==
  \A i \in DOMAIN tasks :
    (Loaded(i) /\ StepsFrom(i, "suggestEdits")) =>
      /\ imageUrl' = tasks[i].img
      /\ undoStack' = <<>>
      /\ isUploadedImage'
      /\ ~Undoes

C22_Load ==
  []C22_WhileLoaded /\ [][C22_LoadStep /\ C22_SettleStep /\ C21_EmptyStep]_vars

\* A history selection that replaced an image with a full undo stack, its
\* suggestions being computed.
C22_Witness ==
  /\ toasts = <<"Image Loaded">>
  /\ Len(tasks) = 1 /\ tasks[1].kind = "history"
  /\ imageUrl = tasks[1].img
  /\ undoStack = <<>>
  /\ Len(imageHistory) = MAX_HISTORY_LENGTH
  /\ isUploadedImage


(***************************************************************************)
(* C23: Suggest empties the suggested edits before it calls suggestEdits;  *)
(* when the call succeeds the set becomes the returned result, when it     *)
(* fails the set stays empty and the error is surfaced; in both cases the  *)
(* current image, the undo stack and the history are unchanged.            *)
(***************************************************************************)
SuggestPending(i) == i \in DOMAIN tasks /\ tasks[i].pc = "suggestEdits"

\* handleSuggestEdits was called in this step.
SuggestCalled ==
  \E i \in DOMAIN tasks' :
    /\ tasks'[i].pc = "suggestEdits"
    /\ ~SuggestPending(i)

C23_StartStep ==
  SuggestCalled =>
    /\ suggestedEdits' = NoResult
    /\ isLoading' /\ activeLoader' = "suggest"

C23_WhilePending ==
  \A i \in DOMAIN tasks : SuggestPending(i) => suggestedEdits = NoResult

C23_SettleStep ==
  \A i \in DOMAIN tasks :
    StepsFrom(i, "suggestEdits") =>
      /\ tasks' = RemoveAt(tasks, i)
      /\ imageUrl' = imageUrl
      /\ undoStack' = undoStack
      /\ imageHistory' = imageHistory /\ storage' = storage
      /\ \/ /\ toasts' = <<>>
            /\ suggestedEdits' = SuggestionsFor(tasks[i].img)
            /\ error' = error
         \/ /\ toasts' # <<>>
            /\ suggestedEdits' = NoResult
            /\ error' \in SurfacedMessages("suggestEdits")

EncodingFails(i) ==
  /\ i \in DOMAIN tasks
  /\ tasks[i].pc = "thumbnail"
  /\ RaisedNext("History Update Failed")

C24_EncodingStep ==
  \A i \in DOMAIN tasks :
    EncodingFails(i) =>
      /\ imageHistory' = imageHistory /\ storage' = storage
      /\ imageUrl' = imageUrl /\ imageUrl' = tasks[i].img
      /\ undoStack' = undoStack
      /\ error' = ErrorAfterRecord(tasks[i].kind)
      /\ ~RaisedNext("Generation Failed") /\ ~RaisedNext("Editing Failed")
      /\ Len(tasks') = Len(tasks)
      /\ tasks'[i].img = tasks[i].img
      /\ isLoading'
      /\ IF tasks[i].kind = "generate"
         THEN /\ tasks'[i].pc = "refinePromptV2"
              /\ isRefining' /\ activeLoader' = "generate"
         ELSE /\ tasks'[i].pc = "suggestEdits"
              /\ activeLoader' = "suggest"

C24_EncodingFailureNonFatal == [][C24_EncodingStep]_vars

\* An Edit whose thumbnail could not be encoded: the edited image is shown
\* above the base image on the undo stack, its suggestions are being
\* computed, and the history does not hold it.
C24_Witness ==
  /\ toasts = <<"History Update Failed">>
  /\ Len(tasks) = 1
  /\ tasks[1].kind = "edit" /\ tasks[1].pc = "suggestEdits"
  /\ imageUrl = tasks[1].img
  /\ undoStack # <<>>
  /\ createThumbnailDataUri(imageUrl) \notin Range(imageHistory)


(***************************************************************************)
(* C25: an upload whose file is not of an image type, or whose file cannot *)
(* be read, sets the error, calls no remote flow and records nothing, and  *)
(* leaves the current image, the undo stack, the history and both          *)
(* suggestion sets as they are.                                            *)
(***************************************************************************)
UploadFails == RaisedNext("Upload Failed")

UploadErrors ==
  {<<"Invalid file type. Please upload an image.">>,
   <<"Failed to read the uploaded file.">>}

\* No handler is left waiting after the step that was not waiting before.
NothingIssued ==
  \/ tasks' = tasks
  \/ \E i \in DOMAIN tasks :
       /\ tasks[i].kind = "upload" /\ tasks[i].pc = "readAsDataURL"
       /\ tasks' = RemoveAt(tasks, i)

C25_UploadFailureStep ==
  UploadFails =>
    /\ error' \in UploadErrors
    /\ toasts' = <<"Upload Failed">>
    /\ NothingIssued
    /\ imageUrl' = imageUrl
    /\ undoStack' = undoStack
    /\ imageHistory' = imageHistory /\ storage' = storage
    /\ refinedPrompts' = refinedPrompts
    /\ suggestedEdits' = suggestedEdits
    /\ isLoading' = isLoading /\ activeLoader' = activeLoader
    /\ isUploadedImage' = isUploadedImage

C25_UploadFailure == [][C25_UploadFailureStep]_vars

\* A file that could not be read, with the edited image, its undo stack and
\* its suggestions still in place.
C25_Witness ==
  /\ error = <<"Failed to read the uploaded file.">>
  /\ toasts = <<"Upload Failed">>
  /\ tasks = <<>>
  /\ imageUrl # NULL /\ undoStack # <<>>
  /\ suggestedEdits # NoResult /\ refinedPrompts # NoResult
  /\ ~isLoading


(***************************************************************************)
(* C26: provided every remote call and every thumbnail encoding that was   *)
(* started eventually completes or fails, every foreground operation       *)
(* (Generate, Edit with its Suggest, Suggest, upload, history selection)   *)
(* eventually brings the status back to idle, isLoading false and          *)
(* activeLoader null, whichever way its calls end.                         *)
(***************************************************************************)
StatusIdle == ~isLoading /\ ~isRefining /\ activeLoader = NoLoader

\* A handler is waiting for a call, an encoding or a file.
Busy == tasks # <<>>

\* With no handler waiting the status is idle; hence a status that is not
\* idle means that a handler is waiting.
C26_IdleWhenDone == ~Busy => StatusIdle

C26_ReturnsToIdle ==
  /\ []C26_IdleWhenDone
  /\ Busy ~> (~Busy /\ StatusIdle)

\* Idle again after a Generate that went through generation, record and
\* refinement.
C26_Witness ==
  /\ ~Busy /\ StatusIdle
  /\ budget < MaxSeqOps
  /\ imageUrl # NULL /\ undoStack = <<>>
  /\ refinedPrompts # NoResult
  /\ ~isUploadedImage
  /\ toasts = <<>>


(***************************************************************************)
(* C27: the storage slot is written anew, as a whole, on every change of   *)
(* the history in memory: whenever the last write was accepted and no      *)
(* change of the history is waiting to be rendered, the slot holds exactly *)
(* the serialisation of the list in memory, so that a restart then loads a *)
(* history equal to the one the previous session ended with.               *)
(***************************************************************************)
InSync == storage = Stringify(imageHistory)

\* The page is closed or reloaded in this step.
Restarts == (mounted \/ queued # <<>>) /\ ~mounted' /\ queued' = <<>>

\* Every text written is the whole list of the render that wrote it.
C27_WholeStep ==
  storage' # storage =>
    \/ storage' = Stringify(imageHistory')
    \/ queued' # <<>> /\ storage' = Stringify(imageHistory)

\* A step that starts in step with the slot, or changes the history, or
\* belongs to the start-up, and whose write is not refused, ends in step
\* with the slot, unless it leaves a change waiting.
C27_SyncStep ==
  (/\ InSync \/ imageHistory' # imageHistory \/ ~mounted
   /\ ~SaveFails /\ ~Restarts /\ queued' = <<>>) => InSync'

\* A restart from a state in step with the slot: the slot is kept, and
\* what it holds reads back as the list the session ended with.
C27_RestartStep ==
  (Restarts /\ InSync) =>
    /\ storage' = storage
    /\ IsArrayText(storage')
    /\ ParsedList(storage') = imageHistory

\* The start-up loads what the slot holds.
C27_LoadStep ==
  /\ (~mounted /\ queued = <<>> /\ storage # <<>> /\ IsArrayText(storage)) =>
       queued' = <<ParsedList(storage)>>
  /\ (~mounted /\ queued # <<>> /\ ~Restarts) => imageHistory' = queued[1]

C27_SlotFollowsHistory ==
  [][C27_WholeStep /\ C27_SyncStep /\ C27_RestartStep /\ C27_LoadStep]_vars

\* A session recorded one image and was closed; the next one has read the
\* slot and is about to render that history.
C27_Witness ==
  /\ ~mounted
  /\ queued = <<(<<createThumbnailDataUri(1)>>)>>
  /\ imageHistory = <<>>
  /\ budget = 0


(***************************************************************************)
(* C28: the history list changes only by the record that follows a         *)
(* successful generate, edit or upload: a history selection, an Undo, a    *)
(* Reset, a Suggest, a refused input and a failed remote call leave it as  *)
(* it is; and an entry once recorded leaves the list only by capacity,     *)
(* when newer distinct entries push it past position 5.                    *)
(***************************************************************************)
RecordingKinds == {"generate", "edit", "upload"}

\* The list changes only in the record step of a handler whose call has
\* succeeded: the image it records is the result on display.
C28_ChangeStep ==
  imageHistory' # imageHistory =>
    \E i \in DOMAIN tasks :
      /\ Records(i)
      /\ tasks[i].kind \in RecordingKinds
      /\ tasks[i].img = imageUrl /\ imageUrl # NULL
      /\ imageHistory'[1] = createThumbnailDataUri(tasks[i].img)

\* An entry that leaves the list stood at position 5 or beyond once the
\* recorded thumbnail, not in the list before, was put in front.
C28_EvictionStep ==
  \A n \in DOMAIN imageHistory :
    imageHistory[n] \notin Range(imageHistory') =>
      /\ n >= MAX_HISTORY_LENGTH
      /\ imageHistory' # <<>>
      /\ imageHistory'[1] \notin Range(imageHistory)
      /\ Len(imageHistory') = MAX_HISTORY_LENGTH

\* An input refused by the validation of Generate or Edit.
Refuses ==
  /\ error' # error
  /\ error' \in {<<"Cannot generate image from an empty prompt.">>,
                  <<"Please enter a prompt to edit the image.">>,
                  <<"No image to edit. Please generate or upload an image first.">>}

\* The steps the claim names: none of them touches the list.
C28_OtherStep ==
  (\/ RaisedNext("Image Loaded") \/ Undoes \/ Resets \/ UploadFails
   \/ Refuses
   \/ SuggestCalled /\ ~(\E i \in DOMAIN tasks : Records(i))
   \/ \E i \in DOMAIN tasks : StepsFrom(i, "suggestEdits")
   \/ \E i \in DOMAIN tasks : \E call \in ForegroundCalls :
        RemoteCallFails(i, call)) =>
      imageHistory' = imageHistory /\ storage' = storage

C28_HistoryFrame ==
  [][C28_ChangeStep /\ C28_EvictionStep /\ C28_OtherStep]_vars

\* A full history after a history selection, an image shown and nothing
\* pending: the selected entry has stayed where it was, at the end.
C28_Witness ==
  /\ tasks = <<>>
  /\ isUploadedImage
  /\ Len(imageHistory) = MAX_HISTORY_LENGTH
  /\ imageUrl = imageHistory[MAX_HISTORY_LENGTH]
  /\ suggestedEdits = SuggestionsFor(imageUrl)


(***************************************************************************)
(* C29: the start-up never loses a history that was stored: for every list *)
(* the slot holds at the start, at no moment of the start-up (the load     *)
(* effect, then the save effect running with the still empty list of the   *)
(* first render) does the slot hold another list than the stored one, so   *)
(* that a session ended at any moment of the start-up leaves the stored    *)
(* history as it was.                                                      *)
(***************************************************************************)
\* The start-up has read a list and has not rendered it yet; the list read
\* is the one that was stored.
StartingUp == ~mounted /\ queued # <<>>

C29_WhileStarting == StartingUp => storage = Stringify(queued[1])

\* The steps of the start-up leave a stored list in the slot as it is.
C29_StartStep ==
  (~mounted /\ storage # <<>> /\ IsArrayText(storage) /\ ~Restarts) =>
    (IF queued = <<>> THEN storage' = storage
     ELSE storage' = Stringify(queued[1]))

C29_StartKeepsStored == []C29_WhileStarting /\ [][C29_StartStep]_vars

\* The first save effect has replaced a stored list of two thumbnails by
\* the empty list, and the list read has not been rendered yet.
C29_Witness ==
  /\ StartingUp
  /\ queued[1] = <<ThumbBase + 2, ThumbBase + 1>>
  /\ storage = Stringify(<<>>)


(***************************************************************************)
(* C30: a failure of the Suggest that follows a successful Edit does not   *)
(* roll the edit back: the current image stays the edited image, the undo  *)
(* stack keeps the image the edit started from on top, the history keeps   *)
(* the thumbnail of the edited image in front, the suggested edits are     *)
(* empty and the error reports the failure of the suggestions.             *)
(***************************************************************************)
\* The Suggest called by the Edit of task i fails.
EditSuggestFails(i) ==
  /\ RemoteCallFails(i, "suggestEdits")
  /\ tasks[i].kind = "edit"

\* While that Suggest is pending the edited image is shown and the stack
\* is the one the Edit pushed on (tasks[i].pre is the stack before the
\* push); the record before it has put the thumbnail in front (C19).
C30_WhileSuggesting ==
  \A i \in DOMAIN tasks :
    (SuggestPending(i) /\ tasks[i].kind = "edit") =>
      /\ imageUrl = tasks[i].img
      /\ undoStack # <<>>
      /\ Tail(undoStack) = Slice(tasks[i].pre, MAX_UNDO_STEPS - 1)

C30_FailureStep ==
  \A i \in DOMAIN tasks :
    EditSuggestFails(i) =>
      /\ imageUrl' = imageUrl
      /\ undoStack' = undoStack
      /\ imageHistory' = imageHistory /\ storage' = storage
      /\ suggestedEdits' = NoResult
      /\ error' \in SurfacedMessages("suggestEdits")
      /\ ~RaisedNext("Editing Failed")
      /\ ~isLoading' /\ activeLoader' = NoLoader

C31_StartStep ==
  EditStarts =>
    /\ suggestedEdits' = NoResult
    /\ refinedPrompts' = refinedPrompts
    /\ editPrompt' = editPrompt

\* tasks[i].img is the image the Edit started from, tasks[i].pre the undo
\* stack before its push.
C31_FailureStep ==
  \A i \in DOMAIN tasks :
    EditFails(i) =>
      /\ imageUrl' = tasks[i].img
      /\ undoStack' = tasks[i].pre
      /\ suggestedEdits' = NoResult
      /\ refinedPrompts' = refinedPrompts
      /\ editPrompt' = editPrompt

C31_FailedEditFrame == [][C31_StartStep /\ C31_FailureStep]_vars

\* A failed Edit typed into the field, from an image that had suggestions
\* and a full undo stack: the suggestions are gone, the typed text and the
\* refined prompts are there, and the stack holds four entries.
C31_Witness ==
  /\ tasks = <<>>
  /\ toasts = <<"Editing Failed">>
  /\ suggestedEdits = NoResult
  /\ refinedPrompts # NoResult
  /\ Trim(editPrompt) # ""
  /\ imageUrl = NumSeqImages - 1
  /\ Len(undoStack) = MAX_UNDO_STEPS - 1


(***************************************************************************)
(* C32: in every reachable state isLoading is true exactly when            *)
(* activeLoader is not null, and activeLoader is one of generate, edit,    *)
(* suggest and null; during a successful Edit it is edit, then suggest,    *)
(* then null, with no idle state in between.                               *)
(***************************************************************************)
Loaders == {"generate", "edit", "suggest", NoLoader}

C32_Paired ==
  /\ activeLoader \in Loaders
  /\ isLoading <=> activeLoader # NoLoader

\* From its start to the settling of its Suggest an Edit shows edit, then
\* suggest.
C32_DuringEdit ==
  \A i \in DOMAIN tasks :
    tasks[i].kind = "edit" =>
      /\ isLoading
      /\ activeLoader = IF tasks[i].pc = "suggestEdits" THEN "suggest"
                        ELSE "edit"

C32_EditStep ==
  /\ EditStarts => activeLoader' = "edit"
  /\ \A i \in DOMAIN tasks :
       (tasks[i].kind = "edit" /\ StepsFrom(i, "suggestEdits")) =>
         activeLoader' = NoLoader /\ ~isLoading'

C32_Status ==
  [](C32_Paired /\ C32_DuringEdit) /\ [][C32_EditStep]_vars

\* An Edit whose remote call is pending while the status is idle.
C32_Witness ==
  /\ ~isLoading
  /\ activeLoader = NoLoader
  /\ \E i \in DOMAIN tasks : tasks[i].kind = "edit" /\ tasks[i].pc = "editImage"

(***************************************************************************)
(* C33: records whose thumbnail encodings overlap in time lose no update.  *)
(* Each record is applied to the list as it is when the encoding           *)
(* completes: the new thumbnail comes first, the entries already in the    *)
(* list follow in their order, only the oldest entry of a full list is     *)
(* dropped, and the list keeps at most MAX_HISTORY_LENGTH entries without  *)
(* duplicates.  So of two overlapping records of distinct thumbnails the   *)
(* one completed last is first and the one completed before it second.     *)
(***************************************************************************)
Thumbnail(i) == createThumbnailDataUri(tasks[i].img)

\* Another encoding is in progress while that of task i completes.
Overlaps(i) ==
  \E j \in DOMAIN tasks : j # i /\ tasks[j].pc = "thumbnail"

\* The positions of a list at which x stands.
Places(s, x) == {n \in DOMAIN s : s[n] = x}

C33_RecordStep ==
  \A i \in DOMAIN tasks :
    Records(i) =>
      /\ imageHistory' # <<>>
      /\ imageHistory'[1] = Thumbnail(i)
      /\ Len(imageHistory') <= MAX_HISTORY_LENGTH
      /\ NoDuplicates(imageHistory')
      \* every other entry stays, except the last one of a full list when
      \* the thumbnail is new
      /\ \A n \in DOMAIN imageHistory :
           imageHistory[n] # Thumbnail(i) =>
             \/ imageHistory[n] \in Range(imageHistory')
             \/ /\ n = MAX_HISTORY_LENGTH
                /\ Thumbnail(i) \notin Range(imageHistory)
      \* and the entries that stay keep their order
      /\ \A m, n \in DOMAIN imageHistory :
           \A a \in Places(imageHistory', imageHistory[m]) :
             \A b \in Places(imageHistory', imageHistory[n]) :
               (m < n /\ imageHistory[m] # Thumbnail(i)
                      /\ imageHistory[n] # Thumbnail(i)) => a < b

\* The record that completes second stands before the one that completed
\* first.
C33_SecondStep ==
  \A i \in DOMAIN tasks :
    (Records(i) /\ imageHistory # <<>> /\ imageHistory[1] # Thumbnail(i)) =>
      /\ Len(imageHistory') >= 2
      /\ imageHistory'[2] = imageHistory[1]

\* While encodings overlap the list is bounded and free of duplicates.
C33_WhileOverlapping ==
  (\E i \in DOMAIN tasks : tasks[i].pc = "thumbnail" /\ Overlaps(i)) =>
    /\ Len(imageHistory) <= MAX_HISTORY_LENGTH
    /\ NoDuplicates(imageHistory)

C33_NoLostUpdate ==
  []C33_WhileOverlapping /\ [][C33_RecordStep /\ C33_SecondStep]_vars

\* Two files chosen late in a session with a full list: the file shown
\* was read last and recorded first, so its encoding ran wholly within
\* that of the other, whose thumbnail now stands before it; the oldest
\* entry of the list has gone.
C33_Witness ==
  /\ Len(tasks) = 2
  /\ \A i \in DOMAIN tasks :
       tasks[i].kind = "upload" /\ tasks[i].pc = "suggestEdits"
  /\ imageUrl = NumSeqImages
  /\ imageHistory =
       <<createThumbnailDataUri(1), createThumbnailDataUri(NumSeqImages)>>
       \o SubSeq(SessionHistory(NumSeqImages - 1), 1, MAX_HISTORY_LENGTH - 2)

====
